---- MODULE Spec2Model ----
(***************************************************************************)
(* Server Orchestration Core of MineCP: the RCON console client            *)
(* (app/services/rcon_client.py), the thread-based task queue              *)
(* (app/background/task_queue.py), the metrics collector                   *)
(* (app/services/monitoring.py), the backup manager                        *)
(* (app/services/backup_manager.py), the container manager                 *)
(* (app/services/docker_manager.py) and the deploy task with the request   *)
(* handlers that submit it (app/background/server_tasks.py,                *)
(* app/api/servers.py).                                                    *)
(*                                                                         *)
(* Each component has its own specification over its own group of          *)
(* variables; the other groups stay at their initial value.                *)
(***************************************************************************)
EXTENDS Integers, Sequences, FiniteSets, TLC

VARIABLES
    \* ---- the monitoring scheduler ----
    schLock,        \* _scheduler_lock: 0 (free) or the thread that holds it
    schPc,          \* position of each thread inside start_monitoring_scheduler
    schThread,      \* the module global _scheduler_thread: 0 (None) or a thread
    schAlive,       \* which scheduler threads are alive
    schTicking,     \* which scheduler threads are inside collect_metrics_for_all_servers
    schStarted,     \* number of scheduler threads started so far
    \* ---- a restore request for the instance ----
    rsPc,           \* the handler: "idle", or "restore" once past the status check
    rsCleared,      \* the last rmtree of the data directory: "none" so far, or
                    \* "live" / "stopped" by whether a container of the instance ran
    \* ---- an authenticated session whose peer may stay silent ----
    wgPc,           \* the client thread: "new", "idle" or "reading" (inside recv)
    wgSock,         \* RCONClient.socket: "none" or "open"
    wgTimeout,      \* the timeout of the socket in seconds (0: a blocking socket)
    wgQuiet,        \* seconds the current recv has waited without data
    wgGot,          \* segments of the reply received by the current send_command
    wgCmds,         \* send_command calls so far
    wgRet,          \* what the last send_command returned
    wgRaised,       \* the exception the last send_command caught
    \* ---- backup requests for one instance handled at the same time ----
    cbPc,           \* position of each request thread inside create_backup
    cbSaving,       \* the console of the instance: world saving "on" or "off"
    cbPaused,       \* the console executed the save-off of the thread's current call
    cbResumed,      \* since then the console executed a save-on of another call
    \* ---- the thread calling TaskQueue.shutdown ----
    sdPc,           \* "idle", "join" (inside the loop of joins) or "returned"
    sdIdx,          \* the worker being joined (0: none)
    sdElapsed,      \* seconds the current join has waited
    sdTimeouts,     \* joins of this shutdown that ended by their timeout
    \* ---- RCONClient and the console it talks to ----
    socket,         \* RCONClient.socket: "none" (None) or "open"
    request_id,     \* RCONClient.request_id
    conn,           \* number of TCP connections established so far (peer side)
    authed,         \* what the peer answered to the AUTH of the current connection
    wire,           \* packets the peer has received, in order
    ret,            \* return value of the last client call
    scope,          \* "out" or "in": inside a `with RCONClient(...)` block
    saving,         \* console process: world saving "on" or "off"
    \* ---- packet codec ----
    codecPc,        \* "idle", "encoded", "raised" (encode raised) or "decoded"
    encIn,          \* (request id, packet type, payload) given to the encoder
    stream,         \* bytes handed to socket.sendall
    decOut,         \* what _receive_packet returned for these bytes
    \* ---- TaskQueue ----
    task_queue,         \* TaskQueue.task_queue: pending tasks, FIFO
    unfinished_tasks,   \* queue.Queue.unfinished_tasks, the counter join() waits on
    running,            \* TaskQueue.running
    wpc,                \* position of each worker thread in _worker
    wtask,              \* the task a worker holds (0: none)
    submitted,          \* tasks in the order they were submitted
    execCount,          \* how many times each task body was executed
    raised,             \* tasks whose body raised
    waitPc,             \* a thread calling wait_completion: "idle", "waiting", "returned"
    waitSnapshot,       \* tasks that had been submitted when wait_completion returned
    overlap,            \* two workers have been executing task bodies at the same time
    \* ---- MetricsCollector ----
    now,            \* the clock read by datetime.utcnow()
    metrics,        \* MetricsCollector.metrics: server id -> deque of (timestamp, metrics)
    history,        \* every sample stored for a server, in collection order
    collectRet,     \* what collect_server_metrics returned, when it was the last step
    collectCall,    \* the collect_server_metrics call of the last step: its
                    \* server, what get_stats and get_online_players answered
                    \* and the dictionary it returned
    readOut,        \* the get_recent_metrics / get_latest_metrics call of the last
                    \* step and its result
    \* ---- BackupManager ----
    bpc,            \* position of the caller inside create_backup / restore_backup
    dataDir,        \* MC_SERVER_DATA_DIR / server_id / 'data'
    archives,       \* the files of MC_BACKUP_DIR / server_id, by name
    bkName,         \* name of the archive being written or restored
    bkRet,          \* what the last create_backup / restore_backup returned
    calls,          \* send_command calls of the current create_backup, in order
    archiveRaised,  \* the archival step of the current create_backup raised
    origDir,        \* the data directory when the last create_backup was called
    nops,           \* number of create_backup / restore_backup calls so far
    lastCreated,    \* the archive the previous call returned, if it was a
                    \* create_backup that returned a path
    roundTrip,      \* the current restore_backup restores that archive
    \* ---- a caller of RCONClient ----
    lastCall,       \* the RCONClient call of the last step: its name, the
                    \* socket it found and, for __exit__, how the block was left
    \* ---- get_task_queue ----
    g_task_queue,   \* the module global _task_queue: 0 (None) or a pool
    pools,          \* number of TaskQueue objects constructed so far
    gpc,            \* position of each thread inside get_task_queue
    glocal,         \* the TaskQueue a thread has constructed and not yet assigned
    gret,           \* what the last get_task_queue call of each thread returned
    gcalls,         \* number of get_task_queue calls each thread has made
    \* ---- DockerManager.ensure_network ----
    netCount,       \* networks of the runtime named MC_SERVER_NETWORK
    npc,            \* position of each thread inside ensure_network
    ncalls,         \* number of ensure_network calls each thread has made
    nreturned,      \* number of ensure_network calls that returned
    dupCreate,      \* a network was created while one of that name existed
    \* ---- DockerManager and the container runtime ----
    containers,     \* the runtime's containers, by handle (container id)
    created,        \* number of containers the runtime has created so far
    dkLast,         \* the DockerManager call of the last step and its outcome
    \* ---- one server instance: its record, the requests and deploy tasks ----
    server,         \* the row of the instance in the servers table
    dq,             \* the task queue: pending tasks, FIFO
    dwpc,           \* position of each worker inside the task it runs
    dwh,            \* deploy_server_async: the container create_server returned
    apc,            \* the request being handled: "idle", "start", "stop", "delete"
    aseen,          \* the Server object the request handler loaded
    nstarts,        \* number of start requests so far
    deployEnd,      \* the deploy task that ended in the last step
    nsubmit,        \* task_queue.submit(deploy_server_async, ...) calls of the handlers
    nbody,          \* calls of the body of deploy_server_async
    \* ---- the backups table ----
    catalog,        \* names of the archives a Backup row points to
    \* ---- one console session: a client, its connection and the peer ----
    sconn,          \* the connection of the session: "none" or "open"
    inbox,          \* packets the peer has sent that the client has not read
    ncmd,           \* COMMAND packets sent on this connection
    answers,        \* what the send_command calls on this connection returned
    \* ---- _receive_packet reading from a socket ----
    rdPc,           \* "ready", "sent" (the peer has sent) or "done"
    rdChunks,       \* the segments in which the peer's bytes arrive, in
                    \* order; the peer closes the connection after the last
    rdOut           \* what _receive_packet did

rconVars  == <<socket, request_id, conn, authed, wire, ret, scope, saving>>
codecVars == <<codecPc, encIn, stream, decOut>>
tqVars    == <<task_queue, unfinished_tasks, running, wpc, wtask, submitted,
               execCount, raised, waitPc, waitSnapshot, overlap>>

metVars   == <<now, metrics, history, collectRet, collectCall, readOut>>

bkVars    == <<bpc, dataDir, archives, bkName, bkRet, calls, archiveRaised,
               origDir, nops, lastCreated, roundTrip>>

sgVars == << g_task_queue, pools, gpc, glocal, gret, gcalls >>

netVars == << netCount, npc, ncalls, nreturned, dupCreate >>

dkVars == << containers, created, dkLast >>

dpVars == << server, dq, dwpc, dwh, apc, aseen, nstarts, deployEnd, nsubmit, nbody >>

\* the components specified further below
catVars == << catalog >>

ssVars == << sconn, inbox, ncmd, answers >>

rdVars == << rdPc, rdChunks, rdOut >>

sdVars == << sdPc, sdIdx, sdElapsed, sdTimeouts >>

cbVars == << cbPc, cbSaving, cbPaused, cbResumed >>

wgVars == << wgPc, wgSock, wgTimeout, wgQuiet, wgGot, wgCmds, wgRet, wgRaised >>

rsVars == << rsPc, rsCleared >>

schVars == << schLock, schPc, schThread, schAlive, schTicking, schStarted >>

laterVars == << sgVars, netVars, dkVars, dpVars, catVars, ssVars, rdVars, sdVars, cbVars, wgVars, rsVars, schVars >>

extVars == << lastCall, laterVars >>

vars == <<rconVars, codecVars, tqVars, metVars, bkVars, extVars>>

(***************************************************************************)
(* Bounds of the model.                                                    *)
(***************************************************************************)
MaxPackets == 4      \* packets recorded on the wire
MaxConn    == 3      \* connections a client opens
MaxPayload == 2      \* characters in an encoded payload
NumWorkers == 2      \* worker threads of the pool (num_workers)
MaxTasks   == 3      \* tasks submitted to the queue
MaxTime    == 3      \* last instant of the clock
MaxOps     == 2      \* create_backup / restore_backup calls in one run
MaxStamp   == 1      \* last second of the clock while backups are taken
NumCallers == 3      \* threads calling get_task_queue
MaxCalls   == 2      \* get_task_queue calls of one thread
MaxEnsure  == 2      \* ensure_network calls of one thread
MaxHandles == 2      \* containers the runtime creates in one run
MaxCmds    == 3      \* send_command calls on one connection
MaxParts   == 2      \* packets of one reply of the console
MaxCuts    == 2      \* places where the peer's bytes are split
NumRequests == 2     \* request threads inside create_backup at the same time
MaxThreads == 2      \* scheduler threads started in one run
MaxStarts  == 2      \* start requests for the instance
\* deque(maxlen=720) and retention_seconds=3600 of the source, scaled down
maxlen            == 3
retention_seconds == 2

(***************************************************************************)
(* Program constants.                                                      *)
(***************************************************************************)
PACKET_AUTH     == 3
PACKET_COMMAND  == 2
PACKET_RESPONSE == 0

\* 2^31 - 1: request ids are kept modulo 2147483648 (rcon_client.py:79).
\* TLC integers are 32-bit, so the modulus is written through its predecessor.
IdMax == 2147483647

None == "None"

(***************************************************************************)
(* struct.pack('<i', n) / struct.unpack('<i', b): 32-bit little endian,    *)
(* two's complement.                                                       *)
(***************************************************************************)
pack_i(n) ==
    LET m == IF n >= 0 THEN n ELSE (n + IdMax) + 1     \* n + 2^31 for n < 0
        top == m \div 16777216
    IN  << m % 256, (m \div 256) % 256, (m \div 65536) % 256,
           IF n >= 0 THEN top ELSE top + 128 >>

unpack_i(b) ==
    LET low == b[1] + (256 * b[2]) + (65536 * b[3])
    IN  IF b[4] < 128 THEN low + (16777216 * b[4])
        ELSE ((low + (16777216 * (b[4] - 128))) - IdMax) - 1

(***************************************************************************)
(* str.encode('utf-8') and bytes.decode('utf-8', errors='ignore').         *)
(* A string is a sequence of code points.                                  *)
(***************************************************************************)
IsSurrogate(cp) == cp >= 55296 /\ cp <= 57343

EncodeChar(cp) ==
    IF cp < 128 THEN << cp >>
    ELSE IF cp < 2048 THEN << 192 + (cp \div 64), 128 + (cp % 64) >>
    ELSE IF cp < 65536 THEN
        << 224 + (cp \div 4096), 128 + ((cp \div 64) % 64), 128 + (cp % 64) >>
    ELSE << 240 + (cp \div 262144), 128 + ((cp \div 4096) % 64),
            128 + ((cp \div 64) % 64), 128 + (cp % 64) >>

RECURSIVE utf8_encode(_)
utf8_encode(s) ==
    IF s = << >> THEN << >> ELSE EncodeChar(Head(s)) \o utf8_encode(Tail(s))

\* a lone surrogate makes str.encode raise UnicodeEncodeError
Encodable(s) == \A i \in 1..Len(s) : ~IsSurrogate(s[i])

IsCont(b, i) == i <= Len(b) /\ b[i] >= 128 /\ b[i] <= 191

RECURSIVE utf8_decode(_)
utf8_decode(b) ==
    IF b = << >> THEN << >>
    ELSE LET b1 == b[1]
             drop(k) == SubSeq(b, k + 1, Len(b))
         IN  IF b1 < 128 THEN << b1 >> \o utf8_decode(drop(1))
             ELSE IF b1 >= 194 /\ b1 <= 223 /\ IsCont(b, 2) THEN
                 << ((b1 - 192) * 64) + (b[2] - 128) >> \o utf8_decode(drop(2))
             ELSE IF b1 >= 224 /\ b1 <= 239 /\ IsCont(b, 2) /\ IsCont(b, 3)
                     /\ (b1 = 224 => b[2] >= 160) /\ (b1 = 237 => b[2] <= 159) THEN
                 << ((b1 - 224) * 4096) + ((b[2] - 128) * 64) + (b[3] - 128) >>
                     \o utf8_decode(drop(3))
             ELSE IF b1 >= 240 /\ b1 <= 244 /\ IsCont(b, 2) /\ IsCont(b, 3)
                     /\ IsCont(b, 4)
                     /\ (b1 = 240 => b[2] >= 144) /\ (b1 = 244 => b[2] <= 143) THEN
                 << ((b1 - 240) * 262144) + ((b[2] - 128) * 4096)
                        + ((b[3] - 128) * 64) + (b[4] - 128) >>
                     \o utf8_decode(drop(4))
             ELSE utf8_decode(drop(1))          \* errors='ignore'

(***************************************************************************)
(* RCONClient._send_packet: the bytes handed to socket.sendall.            *)
(***************************************************************************)
packet_size_no_terminator(payload_bytes) == Len(payload_bytes) + 8

packet_size(payload_bytes) == Len(payload_bytes) + 10

PacketBytes(id, packet_type, payload) ==
    LET payload_bytes == utf8_encode(payload)
    IN  pack_i(packet_size(payload_bytes)) \o pack_i(id) \o pack_i(packet_type)
            \o payload_bytes \o << 0, 0 >>

(***************************************************************************)
(* RCONClient._receive_bytes and RCONClient._receive_packet, reading from  *)
(* the front of a byte stream.                                             *)
(***************************************************************************)
receive_bytes(s, length) == SubSeq(s, 1, length)

receive_packet(s) ==
    LET size_data   == receive_bytes(s, 4)
        size        == unpack_i(size_data)
        packet_data == receive_bytes(SubSeq(s, 5, Len(s)), size)
    IN  [ request_id    |-> unpack_i(SubSeq(packet_data, 1, 4)),
          response_type |-> unpack_i(SubSeq(packet_data, 5, 8)),
          payload       |-> utf8_decode(SubSeq(packet_data, 9, Len(packet_data) - 2)),
          consumed      |-> 4 + Len(packet_data) ]

(***************************************************************************)
(* Specification of the packet codec: a packet is encoded by _send_packet  *)
(* and the bytes are read back by _receive_packet.                         *)
(***************************************************************************)
CodecIds      == { -1, 0, 16909060, IdMax }
CodecTypes    == { PACKET_RESPONSE, PACKET_COMMAND, PACKET_AUTH }
\* NUL, 'A', e-acute (2 bytes), euro sign (3 bytes), a lone surrogate,
\* an emoji (4 bytes)
CodecAlphabet == { 0, 65, 233, 8364, 55296, 128512 }

RECURSIVE StringsUpTo(_)
StringsUpTo(n) ==
    IF n = 0 THEN { << >> }
    ELSE LET shorter == StringsUpTo(n - 1)
         IN  shorter \cup { Append(t, c) : t \in shorter, c \in CodecAlphabet }

CodecPayloads == StringsUpTo(MaxPayload)

NoPacket == [ request_id |-> 0, response_type |-> 0, payload |-> << >>, consumed |-> 0 ]

InitCodecVars ==
    /\ codecPc = "idle"
    /\ encIn = [ id |-> 0, type |-> 0, payload |-> << >> ]
    /\ stream = << >>
    /\ decOut = NoPacket

CodecEncode ==
    /\ codecPc \in { "idle", "raised", "decoded" }
    /\ \E id \in CodecIds, t \in CodecTypes, payload \in CodecPayloads :
          /\ encIn' = [ id |-> id, type |-> t, payload |-> payload ]
          /\ IF Encodable(payload)
                THEN codecPc' = "encoded" /\ stream' = PacketBytes(id, t, payload)
                ELSE codecPc' = "raised" /\ stream' = << >>
    /\ decOut' = NoPacket
    /\ UNCHANGED << rconVars, tqVars, metVars, bkVars, extVars >>

CodecDecode ==
    /\ codecPc = "encoded"
    /\ decOut' = receive_packet(stream)
    /\ codecPc' = "decoded"
    /\ UNCHANGED << encIn, stream, rconVars, tqVars, metVars, bkVars, extVars >>

(***************************************************************************)
(* RCONClient.  The client object and the peer are gathered in a record S: *)
(*   socket, request_id                  the RCONClient object             *)
(*   conn, authed, wire, saving          the peer (console process)        *)
(* The transport's behaviour is an input of each operation:                *)
(*   connect:  "refused"   socket.connect raises                           *)
(*             "sendfail"  sendall of the AUTH packet raises               *)
(*             "recvfail"  reading the auth response raises                *)
(*             "rejected"  the peer answers with request id -1             *)
(*             "accepted"  the peer echoes the request id                  *)
(*   exchange: "sendfail", "recvfail", "ok"                                *)
(***************************************************************************)
ConnectOutcomes  == { "refused", "sendfail", "recvfail", "rejected", "accepted" }
ExchangeOutcomes == { "sendfail", "recvfail", "ok" }

Password == "password"

\* (request_id + 1) % 2147483648, for request_id in 0 .. 2^31 - 1
NextRequestIdWrong(id) == IF id + 1 = IdMax THEN 0 ELSE id + 1

NextRequestId(id) == IF id = IdMax THEN 0 ELSE id + 1

\* effect of a command the console executes
ServerApply(sv, command) ==
    IF command = "save-off" THEN "off"
    ELSE IF command = "save-on" THEN "on"
    ELSE sv

\* RCONClient._send_packet; delivered = FALSE when sendall raises
send_packet(S, packet_type, payload, delivered) ==
    LET id == NextRequestId(S.request_id)
        pkt == [ conn |-> S.conn, id |-> id, type |-> packet_type,
                 payload |-> payload, authed |-> S.authed ]
        executes == delivered /\ packet_type = PACKET_COMMAND
                        /\ S.authed = "accepted"
    IN  [ S EXCEPT !.request_id = id,
                   !.wire = IF delivered THEN Append(@, pkt) ELSE @,
                   !.saving = IF executes THEN ServerApply(@, payload) ELSE @ ]

\* RCONClient.disconnect
disconnect(S) == IF S.socket # "none" THEN [ S EXCEPT !.socket = "none" ] ELSE S

\* the request id carried by the peer's answer to AUTH
AuthResponseId(S, outcome) == IF outcome = "rejected" THEN -1 ELSE S.request_id

\* RCONClient._authenticate, after the response was read
authenticate(S, response_id) ==
    IF response_id = -1
        THEN [ st |-> [ S EXCEPT !.authed = "rejected" ], ret |-> FALSE ]
        ELSE [ st |-> [ S EXCEPT !.authed = "accepted" ], ret |-> TRUE ]

\* RCONClient.connect
connect(S, outcome) ==
    IF outcome = "refused"
        THEN [ st |-> disconnect([ S EXCEPT !.socket = "open" ]), ret |-> FALSE ]
    ELSE LET S1 == [ S EXCEPT !.socket = "open", !.conn = @ + 1, !.authed = "none" ]
             S2 == send_packet(S1, PACKET_AUTH, Password, outcome # "sendfail")
         IN  IF outcome \in { "sendfail", "recvfail" }
                 THEN [ st |-> disconnect(S2), ret |-> FALSE ]
                 ELSE authenticate(S2, AuthResponseId(S2, outcome))

\* a try block that sends the command a second time when the exchange failed
exchange_retrying(S, command, outcome) ==
    LET S1 == send_packet(S, PACKET_COMMAND, command, outcome # "sendfail")
    IN  IF outcome = "ok"
            THEN [ st |-> S1, ret |-> "response" ]
            ELSE [ st |-> disconnect(send_packet(S1, PACKET_COMMAND, command, TRUE)),
                   ret |-> None ]

\* the try block of RCONClient.send_command
exchange(S, command, outcome) ==
    LET S1 == send_packet(S, PACKET_COMMAND, command, outcome # "sendfail")
    IN  IF outcome = "ok"
            THEN [ st |-> S1, ret |-> "response" ]
            ELSE [ st |-> disconnect(S1), ret |-> None ]

\* RCONClient.send_command
send_command(S, command, connOutcome, outcome) ==
    IF S.socket = "none"
        THEN LET c == connect(S, connOutcome)
             IN  IF ~c.ret THEN [ st |-> c.st, ret |-> None ]
                 ELSE exchange(c.st, command, outcome)
        ELSE exchange(S, command, outcome)

\* RCONClient.__enter__
enter(S, connOutcome) == connect(S, connOutcome).st

\* an __exit__ that leaves the socket as it is
exit_leaking(S) == S

\* RCONClient.__exit__
exit(S) == disconnect(S)

\* RCONClient.__init__: a new client object; the peer is unchanged
new_client(S) == [ S EXCEPT !.socket = "none", !.request_id = 0 ]

(***************************************************************************)
(* Specification of one client used in any order of calls.                 *)
(***************************************************************************)
RconState ==
    [ socket |-> socket, request_id |-> request_id, conn |-> conn,
      authed |-> authed, wire |-> wire, saving |-> saving ]

SetRcon(S) ==
    /\ socket' = S.socket
    /\ request_id' = S.request_id
    /\ conn' = S.conn
    /\ authed' = S.authed
    /\ wire' = S.wire
    /\ saving' = S.saving

Commands == { "list", "save-off", "save-on" }

\* room for n more packets and one more connection within the bounds
Room(n) == Len(wire) + n <= MaxPackets /\ conn < MaxConn

NoCall == [ op |-> "none", before |-> "none", path |-> "none" ]

\* the call `op` made on the client as it is now
Call(op, path) == [ op |-> op, before |-> socket, path |-> path ]

InitRconVars ==
    /\ lastCall = NoCall
    /\ socket = "none"
    /\ request_id = 0
    /\ conn = 0
    /\ authed = "none"
    /\ wire = << >>
    /\ ret = None
    /\ scope = "out"
    /\ saving = "on"

RconNew ==
    /\ scope = "out"
    /\ SetRcon(new_client(RconState))
    /\ ret' = None
    /\ lastCall' = Call("new", "none")
    /\ UNCHANGED << scope, codecVars, tqVars, metVars, bkVars, laterVars >>

RconConnect ==
    /\ scope = "out"
    /\ Room(1)
    /\ \E o \in ConnectOutcomes :
          LET r == connect(RconState, o)
          IN  SetRcon(r.st) /\ ret' = IF r.ret THEN "True" ELSE "False"
    /\ lastCall' = Call("connect", "none")
    /\ UNCHANGED << scope, codecVars, tqVars, metVars, bkVars, laterVars >>

RconDisconnect ==
    /\ scope = "out"
    /\ SetRcon(disconnect(RconState))
    /\ ret' = None
    /\ lastCall' = Call("disconnect", "none")
    /\ UNCHANGED << scope, codecVars, tqVars, metVars, bkVars, laterVars >>

RconEnter ==
    /\ scope = "out"
    /\ Room(1)
    /\ \E o \in ConnectOutcomes : SetRcon(enter(RconState, o))
    /\ ret' = None
    /\ scope' = "in"
    /\ lastCall' = Call("enter", "none")
    /\ UNCHANGED << codecVars, tqVars, metVars, bkVars, laterVars >>

\* the `with` statement calls __exit__ however the block is left
ExitPaths == { "normal", "exception", "return" }

RconExit ==
    /\ scope = "in"
    /\ SetRcon(exit(RconState))
    /\ ret' = None
    /\ scope' = "out"
    /\ \E path \in ExitPaths : lastCall' = Call("exit", path)
    /\ UNCHANGED << codecVars, tqVars, metVars, bkVars, laterVars >>

RconSendCommand ==
    /\ Room(2)
    /\ \E command \in Commands, co \in ConnectOutcomes, o \in ExchangeOutcomes :
          LET r == send_command(RconState, command, co, o)
          IN  SetRcon(r.st) /\ ret' = r.ret
    /\ lastCall' = Call("send_command", "none")
    /\ UNCHANGED << scope, codecVars, tqVars, metVars, bkVars, laterVars >>

(***************************************************************************)
(* TaskQueue.  Workers are threads; each step below is one atomic step of  *)
(* a thread (the queue's operations run under the queue's mutex).          *)
(*   "loop"    evaluating `while self.running`                             *)
(*   "get"     inside task_queue.get(timeout=1)                            *)
(*   "run"     executing the task body func                             *)
(*   "done"    in the finally clause, before task_queue.task_done()        *)
(*   "exited"  left _worker                                                *)
(***************************************************************************)
Workers == 1..NumWorkers
Tasks   == 1..MaxTasks

InitTqVars ==
    /\ task_queue = << >>
    /\ unfinished_tasks = 0
    /\ running = TRUE
    /\ wpc = [ w \in Workers |-> "loop" ]
    /\ wtask = [ w \in Workers |-> 0 ]
    /\ submitted = << >>
    /\ execCount = [ t \in Tasks |-> 0 ]
    /\ raised = { }
    /\ waitPc = "idle"
    /\ waitSnapshot = { }
    /\ overlap = FALSE

Range(f) == { f[i] : i \in DOMAIN f }

tqGhost == << submitted, execCount, raised, waitPc, waitSnapshot, overlap >>

\* TaskQueue.submit that records the task but never puts it on the queue
submit_dropping(t) ==
    /\ t \notin Range(submitted)
    /\ submitted' = Append(submitted, t)
    /\ UNCHANGED << task_queue, unfinished_tasks, running, wpc, wtask, execCount,
                    raised, waitPc, waitSnapshot, overlap, rconVars, codecVars, metVars, bkVars, extVars >>

\* TaskQueue.submit: task_queue.put((func, args, kwargs))
submit(t) ==
    /\ t \notin Range(submitted)
    /\ task_queue' = Append(task_queue, t)
    /\ unfinished_tasks' = unfinished_tasks + 1
    /\ submitted' = Append(submitted, t)
    /\ UNCHANGED << running, wpc, wtask, execCount, raised, waitPc, waitSnapshot,
                    overlap, rconVars, codecVars, metVars, bkVars, extVars >>

\* TaskQueue._worker: `while self.running`
worker_loop(w) ==
    /\ wpc[w] = "loop"
    /\ wpc' = [ wpc EXCEPT ![w] = IF running THEN "get" ELSE "exited" ]
    /\ UNCHANGED << task_queue, unfinished_tasks, running, wtask, tqGhost,
                    rconVars, codecVars, metVars, bkVars, extVars >>

\* TaskQueue._worker: task_queue.get(timeout=1) returns an item
worker_get(w) ==
    /\ wpc[w] = "get"
    /\ task_queue # << >>
    /\ wtask' = [ wtask EXCEPT ![w] = Head(task_queue) ]
    /\ task_queue' = Tail(task_queue)
    /\ wpc' = [ wpc EXCEPT ![w] = "run" ]
    /\ overlap' = (overlap \/ \E v \in Workers \ { w } : wpc[v] = "run")
    /\ UNCHANGED << unfinished_tasks, running, submitted, execCount, raised,
                    waitPc, waitSnapshot, rconVars, codecVars, metVars, bkVars, extVars >>

\* a worker that lets queue.Empty leave _worker
worker_empty_exiting(w) ==
    /\ wpc[w] = "get"
    /\ task_queue = << >>
    /\ wpc' = [ wpc EXCEPT ![w] = "exited" ]
    /\ UNCHANGED << task_queue, unfinished_tasks, running, wtask, tqGhost,
                    rconVars, codecVars, metVars, bkVars, extVars >>

\* TaskQueue._worker: the get times out (queue.Empty) and the loop continues
worker_empty(w) ==
    /\ wpc[w] = "get"
    /\ task_queue = << >>
    /\ wpc' = [ wpc EXCEPT ![w] = "loop" ]
    /\ UNCHANGED << task_queue, unfinished_tasks, running, wtask, tqGhost,
                    rconVars, codecVars, metVars, bkVars, extVars >>

\* a worker whose task raises leaves _worker (no except clause)
worker_run_uncaught(w, raises) ==
    /\ wpc[w] = "run"
    /\ execCount' = [ execCount EXCEPT ![wtask[w]] = @ + 1 ]
    /\ raised' = IF raises THEN raised \cup { wtask[w] } ELSE raised
    /\ wpc' = [ wpc EXCEPT ![w] = IF raises THEN "exited" ELSE "done" ]
    /\ unfinished_tasks' = IF raises THEN unfinished_tasks - 1 ELSE unfinished_tasks
    /\ wtask' = [ wtask EXCEPT ![w] = IF raises THEN 0 ELSE @ ]
    /\ UNCHANGED << task_queue, running, submitted, waitPc, waitSnapshot, overlap,
                    rconVars, codecVars, metVars, bkVars, extVars >>

\* TaskQueue._worker: the task body func returns, or raises an Exception
\* that the except clause logs
worker_run(w, raises) ==
    /\ wpc[w] = "run"
    /\ execCount' = [ execCount EXCEPT ![wtask[w]] = @ + 1 ]
    /\ raised' = IF raises THEN raised \cup { wtask[w] } ELSE raised
    /\ wpc' = [ wpc EXCEPT ![w] = "done" ]
    /\ UNCHANGED << task_queue, unfinished_tasks, running, wtask, submitted,
                    waitPc, waitSnapshot, overlap, rconVars, codecVars, metVars, bkVars, extVars >>

\* a finally clause that never calls task_done()
worker_task_done_missing(w) ==
    /\ wpc[w] = "done"
    /\ wtask' = [ wtask EXCEPT ![w] = 0 ]
    /\ wpc' = [ wpc EXCEPT ![w] = "loop" ]
    /\ UNCHANGED << task_queue, unfinished_tasks, running, tqGhost, rconVars,
                    codecVars, metVars, bkVars, extVars >>

\* TaskQueue._worker: finally: task_queue.task_done()
worker_task_done(w) ==
    /\ wpc[w] = "done"
    /\ unfinished_tasks' = unfinished_tasks - 1
    /\ wtask' = [ wtask EXCEPT ![w] = 0 ]
    /\ wpc' = [ wpc EXCEPT ![w] = "loop" ]
    /\ UNCHANGED << task_queue, running, tqGhost, rconVars, codecVars, metVars, bkVars, extVars >>

\* TaskQueue.shutdown: self.running = False
shutdown ==
    /\ running
    /\ running' = FALSE
    /\ UNCHANGED << task_queue, unfinished_tasks, wpc, wtask, tqGhost,
                    rconVars, codecVars, metVars, bkVars, extVars >>

\* TaskQueue.wait_completion is called
wait_completion_call ==
    /\ waitPc \in { "idle", "returned" }
    /\ waitPc' = "waiting"
    /\ waitSnapshot' = { }
    /\ UNCHANGED << task_queue, unfinished_tasks, running, wpc, wtask, submitted,
                    execCount, raised, overlap, rconVars, codecVars, metVars, bkVars, extVars >>

\* TaskQueue.wait_completion: task_queue.join() finds unfinished_tasks = 0
wait_completion_return ==
    /\ waitPc = "waiting"
    /\ unfinished_tasks = 0
    /\ waitPc' = "returned"
    /\ waitSnapshot' = Range(submitted)
    /\ UNCHANGED << task_queue, unfinished_tasks, running, wpc, wtask, submitted,
                    execCount, raised, overlap, rconVars, codecVars, metVars, bkVars, extVars >>

TqSubmit      == \E t \in Tasks : submit(t)
TqWorkerLoop  == \E w \in Workers : worker_loop(w)
TqWorkerGet   == \E w \in Workers : worker_get(w)
TqWorkerEmpty == \E w \in Workers : worker_empty(w)
TqWorkerRun   == \E w \in Workers, raises \in BOOLEAN : worker_run(w, raises)
TqWorkerDone  == \E w \in Workers : worker_task_done(w)

(***************************************************************************)
(* TaskQueue.shutdown, step by step, and task bodies that never return.    *)
(* A worker executing such a body stays at "hung".  Time is counted in     *)
(* seconds while the shutting-down thread waits inside a join.             *)
(***************************************************************************)
JoinTimeout == 5     \* worker.join(timeout=5)

InitSdVars ==
    /\ sdPc = "idle"
    /\ sdIdx = 0
    /\ sdElapsed = 0
    /\ sdTimeouts = 0

othersSd == << rconVars, codecVars, metVars, bkVars, lastCall, sgVars,
               netVars, dkVars, dpVars, schVars, rsVars, wgVars, cbVars, catVars, ssVars, rdVars >>

\* TaskQueue._worker: the task body func never returns
worker_hang(w) ==
    /\ wpc[w] = "run"
    /\ execCount' = [ execCount EXCEPT ![wtask[w]] = @ + 1 ]
    /\ wpc' = [ wpc EXCEPT ![w] = "hung" ]
    /\ UNCHANGED << task_queue, unfinished_tasks, running, wtask, submitted, raised,
                    waitPc, waitSnapshot, overlap, rconVars, codecVars, metVars, bkVars, extVars >>

\* TaskQueue.shutdown: self.running = False, then the loop over the workers
shutdown_call ==
    /\ sdPc = "idle"
    /\ running' = FALSE
    /\ sdPc' = "join"
    /\ sdIdx' = 1
    /\ UNCHANGED << sdElapsed, sdTimeouts, task_queue, unfinished_tasks, wpc, wtask,
                    tqGhost, othersSd >>

\* a join that waits for the worker without a timeout
shutdown_join_untimed ==
    /\ sdPc = "join"
    /\ IF wpc[sdIdx] = "exited"
       THEN /\ sdPc' = IF sdIdx = NumWorkers THEN "returned" ELSE "join"
            /\ sdIdx' = IF sdIdx = NumWorkers THEN 0 ELSE sdIdx + 1
            /\ sdElapsed' = 0
            /\ UNCHANGED sdTimeouts
       ELSE /\ sdElapsed' = IF sdElapsed <= JoinTimeout THEN sdElapsed + 1 ELSE sdElapsed
            /\ UNCHANGED << sdPc, sdIdx, sdTimeouts >>
    /\ UNCHANGED << tqVars, othersSd >>

\* TaskQueue.shutdown: worker.join(timeout=5) returns when the worker has
\* left _worker or when five seconds have passed; until then a second passes
shutdown_join ==
    /\ sdPc = "join"
    /\ IF wpc[sdIdx] = "exited" \/ sdElapsed = JoinTimeout
       THEN /\ sdPc' = IF sdIdx = NumWorkers THEN "returned" ELSE "join"
            /\ sdIdx' = IF sdIdx = NumWorkers THEN 0 ELSE sdIdx + 1
            /\ sdElapsed' = 0
            /\ sdTimeouts' = IF wpc[sdIdx] = "exited" THEN sdTimeouts ELSE sdTimeouts + 1
       ELSE /\ sdElapsed' = sdElapsed + 1
            /\ UNCHANGED << sdPc, sdIdx, sdTimeouts >>
    /\ UNCHANGED << tqVars, othersSd >>

TqWorkerHang == \E w \in Workers : worker_hang(w)

\* tasks are numbered in the order of their submission
TqSubmitNext == Len(submitted) < MaxTasks /\ submit(Len(submitted) + 1)

\* the steps of one worker thread
WorkerStep(w) ==
    \/ worker_loop(w)
    \/ worker_get(w)
    \/ worker_empty(w)
    \/ \E raises \in BOOLEAN : worker_run(w, raises)
    \/ worker_hang(w)
    \/ worker_task_done(w)

(***************************************************************************)
(* MetricsCollector.                                                       *)
(***************************************************************************)
ServerIds == { "s1", "s2" }

\* samples collected in one run, over all servers
MaxCollect == maxlen + 1

\* collections.deque(maxlen=...).append without the maxlen
deque_append_unbounded(d, x) == Append(d, x)

\* collections.deque(maxlen=720).append
deque_append(d, x) == IF Len(d) >= maxlen THEN Append(Tail(d), x) ELSE Append(d, x)

\* _cleanup_old_metrics removing from the newest end (pop for popleft)
cleanup_old_metrics_from_newest(d, t) ==
    IF d # << >> /\ Head(d).timestamp < t - retention_seconds
        THEN SubSeq(d, 1, Len(d) - 1)
        ELSE d

\* MetricsCollector._cleanup_old_metrics at time t
RECURSIVE cleanup_old_metrics(_, _)
cleanup_old_metrics(d, t) ==
    IF d # << >> /\ Head(d).timestamp < t - retention_seconds
        THEN cleanup_old_metrics(Tail(d), t)
        ELSE d

\* MetricsCollector._store_metrics at time t
store_metrics(d, m, t) ==
    cleanup_old_metrics(deque_append(d, [ timestamp |-> t, metrics |-> m ]), t)

\* Python's seq[start:]
SliceFrom(seq, start) ==
    LET n == Len(seq)
        i == IF start < 0 THEN (IF n + start < 0 THEN 0 ELSE n + start)
             ELSE (IF start > n THEN n ELSE start)
    IN  SubSeq(seq, i + 1, n)

\* MetricsCollector.get_recent_metrics
get_recent_metrics(d, limit) ==
    LET recent == SliceFrom(d, 0 - limit)
    IN  [ i \in 1..Len(recent) |-> recent[i].metrics ]

\* MetricsCollector.get_latest_metrics; << >> stands for None
get_latest_metrics(d) == IF d = << >> THEN << >> ELSE << d[Len(d)].metrics >>

\* rcon_client.get_online_players as seen by the collector: None or a name list
PlayerAnswers == { << "None" >>, << "alice" >> }

Collected == Len(history["s1"]) + Len(history["s2"])

NoRead == [ op |-> "none", server |-> "s1", limit |-> 0, at |-> 0, result |-> << >> ]

NoCollect == [ op |-> "none", server |-> "s1", stats_ok |-> FALSE,
               answer |-> << >>, result |-> << >> ]

InitMetVars ==
    /\ now = 0
    /\ metrics = [ s \in ServerIds |-> << >> ]
    /\ history = [ s \in ServerIds |-> << >> ]
    /\ collectRet = "none"
    /\ collectCall = NoCollect
    /\ readOut = NoRead

\* time passes
Tick ==
    /\ now < MaxTime
    /\ now' = now + 1
    /\ collectRet' = "none"
    /\ collectCall' = NoCollect
    /\ readOut' = NoRead
    /\ UNCHANGED << metrics, history, rconVars, codecVars, tqVars, bkVars, extVars >>

\* MetricsCollector.collect_server_metrics counting the answer None as a name
collect_server_metrics_counting_none(server_id, stats_ok, answer) ==
    /\ Collected < MaxCollect
    /\ IF ~stats_ok
         THEN /\ collectRet' = None
              /\ collectCall' = [ op |-> "collect", server |-> server_id,
                                  stats_ok |-> stats_ok, answer |-> answer,
                                  result |-> << >> ]
              /\ UNCHANGED << metrics, history >>
         ELSE LET players == answer
                  m == [ timestamp |-> now,
                         stats |-> Collected + 1,
                         online_players |-> Len(players),
                         player_names |-> players ]
              IN  /\ metrics' = [ metrics EXCEPT
                                    ![server_id] = store_metrics(@, m, now) ]
                  /\ history' = [ history EXCEPT ![server_id] = Append(@, m) ]
                  /\ collectRet' = "metrics"
                  /\ collectCall' = [ op |-> "collect", server |-> server_id,
                                      stats_ok |-> stats_ok, answer |-> answer,
                                      result |-> << m >> ]
    /\ readOut' = NoRead
    /\ UNCHANGED << now, rconVars, codecVars, tqVars, bkVars, extVars >>

\* MetricsCollector.collect_server_metrics.  stats_ok: get_stats returned a
\* dictionary (it returns None for a missing container and on every error);
\* answer: what get_online_players returned; the sample's `stats` stands for
\* the six resource figures of this call
collect_server_metrics(server_id, stats_ok, answer) ==
    /\ Collected < MaxCollect
    /\ IF ~stats_ok
         THEN /\ collectRet' = None
              /\ collectCall' = [ op |-> "collect", server |-> server_id,
                                  stats_ok |-> stats_ok, answer |-> answer,
                                  result |-> << >> ]
              /\ UNCHANGED << metrics, history >>
         ELSE LET players == IF answer = << "None" >> THEN << >> ELSE answer
                  m == [ timestamp |-> now,
                         stats |-> Collected + 1,
                         online_players |-> Len(players),
                         player_names |-> players ]
              IN  /\ metrics' = [ metrics EXCEPT
                                    ![server_id] = store_metrics(@, m, now) ]
                  /\ history' = [ history EXCEPT ![server_id] = Append(@, m) ]
                  /\ collectRet' = "metrics"
                  /\ collectCall' = [ op |-> "collect", server |-> server_id,
                                      stats_ok |-> stats_ok, answer |-> answer,
                                      result |-> << m >> ]
    /\ readOut' = NoRead
    /\ UNCHANGED << now, rconVars, codecVars, tqVars, bkVars, extVars >>

Collect ==
    \E s \in ServerIds, ok \in BOOLEAN, a \in PlayerAnswers :
        collect_server_metrics(s, ok, a)

ReadLimits == { 0, 1, maxlen }

\* a reader calls get_recent_metrics
GetRecent ==
    /\ \E s \in ServerIds, limit \in ReadLimits :
          readOut' = [ op |-> "recent", server |-> s, limit |-> limit, at |-> now,
                       result |-> get_recent_metrics(metrics[s], limit) ]
    /\ collectRet' = "none"
    /\ collectCall' = NoCollect
    /\ UNCHANGED << now, metrics, history, rconVars, codecVars, tqVars, bkVars, extVars >>

\* a reader calls get_latest_metrics
GetLatest ==
    /\ \E s \in ServerIds :
          readOut' = [ op |-> "latest", server |-> s, limit |-> 1, at |-> now,
                       result |-> get_latest_metrics(metrics[s]) ]
    /\ collectRet' = "none"
    /\ collectCall' = NoCollect
    /\ UNCHANGED << now, metrics, history, rconVars, codecVars, tqVars, bkVars, extVars >>

\* `m['online_players'] = -1`, done by a caller on a dictionary it holds
Modified(m) == [ m EXCEPT !.online_players = -1 ]

\* A caller modifies a dictionary that the call of the last step returned.
\* collect_server_metrics returns the dictionary it has just stored (line
\* 67), get_recent_metrics builds a new list of the stored dictionaries
\* (line 109) and get_latest_metrics returns the stored dictionary (line
\* 117): the caller and the deque hold the same object.  The `stats` figure
\* is different in every sample, so equal samples are the same object.
CallerModifiesSample ==
    /\ \E m \in Range(readOut.result) \cup Range(collectCall.result) :
          /\ m.online_players # -1
          /\ metrics' = [ s \in ServerIds |->
                            [ i \in 1..Len(metrics[s]) |->
                                IF metrics[s][i].metrics = m
                                    THEN [ metrics[s][i] EXCEPT
                                             !.metrics = Modified(m) ]
                                    ELSE metrics[s][i] ] ]
    /\ collectRet' = "none"
    /\ collectCall' = NoCollect
    /\ readOut' = NoRead
    /\ UNCHANGED << now, history, rconVars, codecVars, tqVars, bkVars, extVars >>

\* A caller empties the list that get_recent_metrics returned: the list was
\* built by the call (lines 108-109), the deque is another object
CallerModifiesList ==
    /\ readOut.op = "recent"
    /\ readOut.result # << >>
    /\ collectRet' = "none"
    /\ collectCall' = NoCollect
    /\ readOut' = NoRead
    /\ UNCHANGED << now, metrics, history, rconVars, codecVars, tqVars, bkVars,
                    extVars >>

(***************************************************************************)
(* BackupManager.  A directory tree is a set of files (path, data) and a   *)
(* set of directories; a path is a sequence of components relative to the  *)
(* data directory.  An archive is a set of tar members.                    *)
(***************************************************************************)
EmptyTree == [ files |-> { }, dirs |-> { } ]

\* the data directories the runs start from: empty, one file, a file next
\* to an empty directory, a file next to a directory holding a file
InitialTrees ==
    { EmptyTree,
      [ files |-> { [ path |-> << "level.dat" >>, data |-> "a" ] }, dirs |-> { } ],
      [ files |-> { [ path |-> << "level.dat" >>, data |-> "b" ] },
        dirs |-> { << "world" >> } ],
      [ files |-> { [ path |-> << "level.dat" >>, data |-> "a" ],
                    [ path |-> << "world", "r.mca" >>, data |-> "a" ] },
        dirs |-> { << "world" >> } ] }

\* tar.add(server_data_dir) without arcname: members named after the directory
arcname_of_directory(path) == << "servers", "data" >> \o path

\* tar.add(server_data_dir, arcname='.'): the name of the member for a path
arcname(path) == << "." >> \o path

\* tar.add(server_data_dir, arcname='.') on a whole tree
tar_add(tree) ==
    { [ name |-> arcname(<< >>), type |-> "dir", data |-> "" ] }
        \cup { [ name |-> arcname(d), type |-> "dir", data |-> "" ] : d \in tree.dirs }
        \cup { [ name |-> arcname(f.path), type |-> "file", data |-> f.data ] :
                 f \in tree.files }

\* where extractall puts a member, relative to the target directory
MemberPath(name) == SelectSeq(name, LAMBDA c : c # ".")

ParentDirs(path) == { SubSeq(path, 1, k) : k \in 1..(Len(path) - 1) }

\* tar.extractall(server_data_dir) of a set of members over a tree
extractall(tree, members) ==
    LET mfiles == { m \in members : m.type = "file" }
        mdirs  == { m \in members : m.type = "dir" /\ MemberPath(m.name) # << >> }
        written == { MemberPath(m.name) : m \in mfiles }
    IN  [ files |-> { f \in tree.files : f.path \notin written }
                      \cup { [ path |-> MemberPath(m.name), data |-> m.data ] :
                               m \in mfiles },
          dirs  |-> tree.dirs \cup { MemberPath(m.name) : m \in mdirs }
                      \cup UNION { ParentDirs(p) : p \in written } ]

\* archive files
NoArchive == [ state |-> "absent", members |-> { } ]
Partial(members) == [ state |-> "partial", members |-> members ]
Complete(members) == [ state |-> "complete", members |-> members ]

ServerName == "srv"
Labels == { "nightly" }

\* f"{server_name}_{timestamp}", a supplied backup_name, f"pre_restore_{timestamp}"
DefaultName(t) == [ prefix |-> ServerName, ts |-> t ]
LabelName(l)   == [ prefix |-> l, ts |-> -1 ]
SafetyName(t)  == [ prefix |-> "pre_restore", ts |-> t ]

ArchiveNames ==
    { DefaultName(t) : t \in 0..MaxStamp } \cup { SafetyName(t) : t \in 0..MaxStamp }
        \cup { LabelName(l) : l \in Labels }

NoName == [ prefix |-> "", ts |-> -1 ]

InitBkRest ==
    /\ bpc = "idle"
    /\ archives = [ n \in ArchiveNames |-> NoArchive ]
    /\ bkName = NoName
    /\ bkRet = "none"
    /\ calls = << >>
    /\ archiveRaised = FALSE
    /\ origDir = EmptyTree
    /\ nops = 0
    /\ lastCreated = NoName
    /\ roundTrip = FALSE

InitBkVars == dataDir = EmptyTree /\ InitBkRest

othersBk == << codecVars, tqVars, metrics, history, collectRet, collectCall,
              readOut, extVars >>

\* one send_command call of create_backup, whose result the caller ignores:
\* S is the state before the call, r the result of send_command; executed
\* tells whether the console received the command on an authenticated session
CallRecord(S, r, command) ==
    [ command |-> command,
      executed |-> /\ Len(r.st.wire) > Len(S.wire)
                   /\ r.st.wire[Len(r.st.wire)].type = PACKET_COMMAND
                   /\ r.st.wire[Len(r.st.wire)].authed = "accepted" ]

\* the client object of a finished `with` block is dropped; of the console
\* only the saving state outlives the closed connections
discard(S) ==
    [ S EXCEPT !.socket = "none", !.request_id = 0, !.conn = 0,
               !.authed = "none", !.wire = << >> ]

\* the console as a new session finds it
Console(sv) ==
    [ socket |-> "none", request_id |-> 0, conn |-> 0, authed |-> "none",
      wire |-> << >>, saving |-> sv ]

\* `with RCONClient(...) as rcon: rcon.send_command(command)` started in
\* state S: every state it can end in, with the record of its call
SessionResults(S, command) ==
    { LET S1 == enter(new_client(S), o)
          r  == send_command(S1, command, co, x)
      IN  [ st |-> discard(exit(r.st)),
            calls |-> << CallRecord(S1, r, command) >> ] :
        o \in ConnectOutcomes, co \in ConnectOutcomes, x \in ExchangeOutcomes }

\* the same with two commands in the block
SessionResults2(S, command1, command2) ==
    { LET S1 == enter(new_client(S), o)
          r1 == send_command(S1, command1, co1, x1)
          r2 == send_command(r1.st, command2, co2, x2)
      IN  [ st |-> discard(exit(r2.st)),
            calls |-> << CallRecord(S1, r1, command1),
                         CallRecord(r1.st, r2, command2) >> ] :
        o \in ConnectOutcomes, co1 \in ConnectOutcomes, x1 \in ExchangeOutcomes,
        co2 \in ConnectOutcomes, x2 \in ExchangeOutcomes }

\* the sessions of create_backup, by the saving state they start in
PauseSessions ==
    [ sv \in { "on", "off" } |->
        SessionResults2(Console(sv), "save-off", "save-all flush") ]

ResumeSessions ==
    [ sv \in { "on", "off" } |-> SessionResults(Console(sv), "save-on") ]

\* BackupManager.create_backup is called, with or without a backup_name
CreateCall ==
    /\ bpc = "idle"
    /\ nops < MaxOps
    /\ nops' = nops + 1
    /\ \E n \in { NoName } \cup { LabelName(l) : l \in Labels } : bkName' = n
    /\ bpc' = "pause"
    /\ calls' = << >>
    /\ archiveRaised' = FALSE
    /\ origDir' = dataDir
    /\ bkRet' = "none"
    /\ lastCreated' = NoName
    /\ roundTrip' = FALSE
    /\ UNCHANGED << rconVars, now, dataDir, archives, othersBk >>

\* create_backup lines 40-42: pause world saving
\* `with RCONClient(...) as rcon: send_command("save-off"); send_command("save-all flush")`
Pause ==
    /\ bpc = "pause"
    /\ \E r \in PauseSessions[saving] :
          /\ SetRcon(r.st)
          /\ calls' = r.calls
    /\ ret' = None
    /\ bpc' = "archive"
    /\ UNCHANGED << scope, now, dataDir, archives, bkName, bkRet, archiveRaised,
                    origDir, nops, lastCreated, roundTrip, othersBk >>

\* create_backup lines 46-58: sleep, name the archive, write the tar.gz.
\* outcome "ok", or the step raises before ("early") or while ("partial")
\* the archive file is written
Archive ==
    /\ bpc = "archive"
    /\ \E outcome \in { "ok", "early", "partial" } :
          LET name == IF bkName = NoName THEN DefaultName(now) ELSE bkName
          IN  /\ bkName' = name
              /\ archives' =
                    IF outcome = "ok"
                        THEN [ archives EXCEPT ![name] = Complete(tar_add(dataDir)) ]
                    ELSE IF outcome = "partial"
                        THEN [ archives EXCEPT ![name] = Partial({ }) ]
                    ELSE archives
              /\ archiveRaised' = (outcome # "ok")
              /\ bpc' = IF outcome = "ok" THEN "resume" ELSE "recover"
    /\ UNCHANGED << rconVars, now, dataDir, bkRet, calls, origDir, nops,
                    lastCreated, roundTrip, othersBk >>

\* `with RCONClient(...) as rcon: rcon.send_command("save-on")`
ResumeSession ==
    /\ \E r \in ResumeSessions[saving] :
          /\ SetRcon(r.st)
          /\ calls' = calls \o r.calls
    /\ ret' = None

\* create_backup lines 61-65: resume world saving and return backup_path
Resume ==
    /\ bpc = "resume"
    /\ ResumeSession
    /\ bpc' = "idle"
    /\ bkRet' = "path"
    /\ lastCreated' = bkName
    /\ UNCHANGED << scope, now, dataDir, archives, bkName, archiveRaised, origDir,
                    nops, roundTrip, othersBk >>

\* an except clause that returns None without re-enabling saving
RecoverSkipping ==
    /\ bpc = "recover"
    /\ bpc' = "idle"
    /\ bkRet' = None
    /\ UNCHANGED << rconVars, now, dataDir, archives, bkName, calls, archiveRaised,
                    origDir, nops, lastCreated, roundTrip, othersBk >>

\* create_backup lines 67-75: the except clause re-enables saving and
\* returns None
Recover ==
    /\ bpc = "recover"
    /\ ResumeSession
    /\ bpc' = "idle"
    /\ bkRet' = None
    /\ UNCHANGED << scope, now, dataDir, archives, bkName, archiveRaised, origDir,
                    nops, lastCreated, roundTrip, othersBk >>

\* time passes between two operations
TickIdle ==
    /\ bpc = "idle"
    /\ now < MaxStamp
    /\ now' = now + 1
    /\ UNCHANGED << rconVars, codecVars, tqVars, metrics, history, collectRet, collectCall,
                    readOut, bkVars, extVars >>

\* BackupManager.restore_backup is called for some archive path
RestoreCall ==
    /\ bpc = "idle"
    /\ nops < MaxOps
    /\ nops' = nops + 1
    /\ \E target \in ArchiveNames :
          /\ bkName' = target
          /\ roundTrip' = (lastCreated # NoName /\ target = lastCreated)
    /\ lastCreated' = NoName
    /\ bpc' = "safety"
    /\ bkRet' = "none"
    /\ calls' = << >>
    /\ archiveRaised' = FALSE
    /\ UNCHANGED << rconVars, now, dataDir, archives, origDir, othersBk >>

\* restore_backup lines 109-111: the except clause returns False
RestoreFails ==
    /\ bpc' = "idle"
    /\ bkRet' = "False"

\* restore_backup going on to clear the directory whatever became of the
\* safety backup
RestoreSafety_unchecked ==
    /\ bpc = "safety"
    /\ \E outcome \in { "ok", "early", "partial" } :
          /\ archives' =
                IF outcome = "ok"
                    THEN [ archives EXCEPT ![SafetyName(now)] = Complete(tar_add(dataDir)) ]
                ELSE IF outcome = "partial"
                    THEN [ archives EXCEPT ![SafetyName(now)] = Partial({ }) ]
                ELSE archives
          /\ bpc' = "clear" /\ UNCHANGED bkRet
    /\ UNCHANGED << rconVars, now, dataDir, bkName, calls, archiveRaised, origDir,
                    nops, lastCreated, roundTrip, othersBk >>

\* restore_backup lines 92-96: safety backup of the current state
RestoreSafety ==
    /\ bpc = "safety"
    /\ \E outcome \in { "ok", "early", "partial" } :
          /\ archives' =
                IF outcome = "ok"
                    THEN [ archives EXCEPT ![SafetyName(now)] = Complete(tar_add(dataDir)) ]
                ELSE IF outcome = "partial"
                    THEN [ archives EXCEPT ![SafetyName(now)] = Partial({ }) ]
                ELSE archives
          /\ IF outcome = "ok"
                THEN bpc' = "clear" /\ UNCHANGED bkRet
                ELSE RestoreFails
    /\ UNCHANGED << rconVars, now, dataDir, bkName, calls, archiveRaised, origDir,
                    nops, lastCreated, roundTrip, othersBk >>

\* restore_backup lines 99-100: shutil.rmtree and mkdir; when rmtree raises
\* some of the files are gone
RestoreClear ==
    /\ bpc = "clear"
    /\ \/ /\ dataDir' = EmptyTree
          /\ bpc' = "extract"
          /\ UNCHANGED bkRet
       \/ /\ \E kept \in SUBSET dataDir.files :
                dataDir' = [ dataDir EXCEPT !.files = kept ]
          /\ RestoreFails
    /\ UNCHANGED << rconVars, now, archives, bkName, calls, archiveRaised, origDir,
                    nops, lastCreated, roundTrip, othersBk >>

\* restore_backup putting the safety backup back when the extraction raises
RestoreExtract_rolling_back ==
    /\ bpc = "extract"
    /\ \/ /\ archives[bkName].state = "complete"
          /\ dataDir' = extractall(dataDir, archives[bkName].members)
          /\ bpc' = "idle"
          /\ bkRet' = "True"
       \/ /\ \E done \in SUBSET archives[bkName].members :
                /\ done # archives[bkName].members \/ archives[bkName].state # "complete"
                /\ dataDir' = extractall(EmptyTree, archives[SafetyName(now)].members)
          /\ RestoreFails
    /\ UNCHANGED << rconVars, now, archives, bkName, calls, archiveRaised, origDir,
                    nops, lastCreated, roundTrip, othersBk >>

\* restore_backup lines 103-107: extract the archive; when it raises (missing
\* or truncated archive, I/O error) some of the members were extracted
RestoreExtract ==
    /\ bpc = "extract"
    /\ \/ /\ archives[bkName].state = "complete"
          /\ dataDir' = extractall(dataDir, archives[bkName].members)
          /\ bpc' = "idle"
          /\ bkRet' = "True"
       \/ /\ \E done \in SUBSET archives[bkName].members :
                /\ done # archives[bkName].members \/ archives[bkName].state # "complete"
                /\ dataDir' = extractall(dataDir, done)
          /\ RestoreFails
    /\ UNCHANGED << rconVars, now, archives, bkName, calls, archiveRaised, origDir,
                    nops, lastCreated, roundTrip, othersBk >>

\* BackupManager.list_backups: the *.tar.gz files of the server's backup
\* directory (as a set; the code sorts them by creation time)
list_backups(A) == { n \in ArchiveNames : A[n].state # "absent" }

InitCatVars == catalog = { }

\* api/backups.py create_backup, lines 100-115, after create_backup returned
\* a path: a Backup row pointing to the archive is added
ApiRecordBackup ==
    /\ bpc = "idle"
    /\ bkRet = "path"
    /\ bkName \notin catalog
    /\ catalog' = catalog \cup { bkName }
    /\ UNCHANGED << rconVars, codecVars, tqVars, metVars, bkVars, lastCall,
                    sgVars, netVars, dkVars, dpVars, schVars, rsVars, wgVars, cbVars, sdVars, ssVars, rdVars >>

(***************************************************************************)
(* create_backup called by several request threads for the same instance.  *)
(* Every session of a call is one step; writing the archive begins and     *)
(* ends in separate steps.                                                 *)
(*   "idle"       outside create_backup                                    *)
(*   "pause"      before the session that sends save-off                   *)
(*   "archive"    sleeping, before tarfile.open                            *)
(*   "archiving"  the archive file is open and tar.add is running          *)
(*   "resume"     the archive is closed, before the session of line 61     *)
(*   "recover"    in the except clause, before the session of line 71      *)
(***************************************************************************)
Requests == 1..NumRequests

InitCbVars ==
    /\ cbPc = [ c \in Requests |-> "idle" ]
    /\ cbSaving = "on"
    /\ cbPaused = [ c \in Requests |-> FALSE ]
    /\ cbResumed = [ c \in Requests |-> FALSE ]

othersCb == << rconVars, codecVars, tqVars, metVars, bkVars, lastCall, sgVars,
               netVars, dkVars, dpVars, schVars, rsVars, wgVars, sdVars, catVars, ssVars, rdVars >>

\* api/backups.py create_backup: the handler calls BackupManager.create_backup
CbCall(c) ==
    /\ cbPc[c] = "idle"
    /\ cbPc' = [ cbPc EXCEPT ![c] = "pause" ]
    /\ cbPaused' = [ cbPaused EXCEPT ![c] = FALSE ]
    /\ cbResumed' = [ cbResumed EXCEPT ![c] = FALSE ]
    /\ UNCHANGED << cbSaving, othersCb >>

\* create_backup lines 40-42
CbPause(c) ==
    /\ cbPc[c] = "pause"
    /\ \E r \in PauseSessions[cbSaving] :
          /\ cbSaving' = r.st.saving
          /\ cbPaused' = [ cbPaused EXCEPT ![c] = r.calls[1].executed ]
    /\ cbPc' = [ cbPc EXCEPT ![c] = "archive" ]
    /\ UNCHANGED << cbResumed, othersCb >>

\* the sessions that send save-on, and what they do to the other calls
CbSaveOn(c) ==
    \E r \in ResumeSessions[cbSaving] :
        /\ cbSaving' = r.st.saving
        /\ cbResumed' =
              [ d \in Requests |->
                  IF d # c /\ r.calls[1].executed
                         /\ cbPc[d] \in { "archive", "archiving", "resume", "recover" }
                      THEN TRUE ELSE cbResumed[d] ]

\* a create_backup that resumes saving before it writes the archive
CbArchiveBegin_resuming_first(c, raises) ==
    /\ cbPc[c] = "archive"
    /\ cbPc' = [ cbPc EXCEPT ![c] = IF raises THEN "recover" ELSE "archiving" ]
    /\ CbSaveOn(c)
    /\ UNCHANGED << cbPaused, othersCb >>

\* create_backup lines 45-57: the sleep, the names and tarfile.open, which
\* may raise
CbArchiveBegin(c, raises) ==
    /\ cbPc[c] = "archive"
    /\ cbPc' = [ cbPc EXCEPT ![c] = IF raises THEN "recover" ELSE "archiving" ]
    /\ UNCHANGED << cbSaving, cbPaused, cbResumed, othersCb >>

\* create_backup line 58 and the end of the with block: tar.add returns or
\* raises
CbArchiveEnd(c, raises) ==
    /\ cbPc[c] = "archiving"
    /\ cbPc' = [ cbPc EXCEPT ![c] = IF raises THEN "recover" ELSE "resume" ]
    /\ UNCHANGED << cbSaving, cbPaused, cbResumed, othersCb >>

\* create_backup lines 61-65, and lines 67-75 in the except clause
CbResume(c) ==
    /\ cbPc[c] \in { "resume", "recover" }
    /\ CbSaveOn(c)
    /\ cbPc' = [ cbPc EXCEPT ![c] = "idle" ]
    /\ UNCHANGED << cbPaused, othersCb >>

(***************************************************************************)
(* send_command on a session whose peer may send the reply in segments,    *)
(* close the connection, or do nothing.  Time is counted in seconds while  *)
(* the client waits inside socket.recv.                                    *)
(***************************************************************************)
ConnectTimeout == 10     \* def connect(self, timeout: int = 10)

\* socket.settimeout on a socket that never times out
settimeout_ignored(timeout) == 0

\* self.socket.settimeout(timeout): the timeout of every later operation
\* on the socket, recv included
settimeout(timeout) == timeout

InitWgVars ==
    /\ wgPc = "new"
    /\ wgSock = "none"
    /\ wgTimeout = 0
    /\ wgQuiet = 0
    /\ wgGot = 0
    /\ wgCmds = 0
    /\ wgRet = "none"
    /\ wgRaised = "none"

othersWg == << rconVars, codecVars, tqVars, metVars, bkVars, lastCall, sgVars,
               netVars, dkVars, dpVars, schVars, rsVars, cbVars, sdVars, catVars, ssVars, rdVars >>

\* connect(): the socket is created, given its timeout and connected, and
\* the peer accepts the password
WgConnect ==
    /\ wgPc = "new"
    /\ wgSock' = "open"
    /\ wgTimeout' = settimeout(ConnectTimeout)
    /\ wgPc' = "idle"
    /\ UNCHANGED << wgQuiet, wgGot, wgCmds, wgRet, wgRaised, othersWg >>

\* send_command lines 124-130: connect when there is no socket, send the
\* COMMAND packet and start reading
WgSend ==
    /\ wgPc = "idle"
    /\ wgCmds < MaxCmds
    /\ wgCmds' = wgCmds + 1
    /\ wgSock' = "open"
    /\ wgTimeout' = IF wgSock = "none" THEN settimeout(ConnectTimeout) ELSE wgTimeout
    /\ wgPc' = "reading"
    /\ wgQuiet' = 0
    /\ wgGot' = 0
    /\ wgRet' = "none"
    /\ wgRaised' = "none"
    /\ UNCHANGED othersWg

\* a segment of the reply arrives and recv returns it; with the last
\* segment send_command returns the response
WgPeerSends ==
    /\ wgPc = "reading"
    /\ wgGot' = wgGot + 1
    /\ wgQuiet' = 0
    /\ IF wgGot + 1 = MaxParts
          THEN wgPc' = "idle" /\ wgRet' = "response"
          ELSE UNCHANGED << wgPc, wgRet >>
    /\ UNCHANGED << wgSock, wgTimeout, wgCmds, wgRaised, othersWg >>

\* the peer closes: recv returns b'', _receive_bytes raises ConnectionError,
\* send_command disconnects and returns None
WgPeerCloses ==
    /\ wgPc = "reading"
    /\ wgPc' = "idle"
    /\ wgSock' = "none"
    /\ wgRet' = None
    /\ wgRaised' = "ConnectionError"
    /\ UNCHANGED << wgTimeout, wgQuiet, wgGot, wgCmds, othersWg >>

\* a second passes while recv waits
WgSecond ==
    /\ wgPc = "reading"
    /\ wgTimeout = 0 \/ wgQuiet < wgTimeout
    /\ wgQuiet' = IF wgTimeout = 0 THEN wgQuiet ELSE wgQuiet + 1
    /\ UNCHANGED << wgPc, wgSock, wgTimeout, wgGot, wgCmds, wgRet, wgRaised, othersWg >>

\* recv has waited for the timeout of the socket: it raises socket.timeout,
\* send_command lines 132-135 disconnect and return None
WgTimeout ==
    /\ wgPc = "reading"
    /\ wgTimeout # 0
    /\ wgQuiet = wgTimeout
    /\ wgPc' = "idle"
    /\ wgSock' = "none"
    /\ wgRet' = None
    /\ wgRaised' = "timeout"
    /\ UNCHANGED << wgTimeout, wgQuiet, wgGot, wgCmds, othersWg >>

(***************************************************************************)
(* One console session seen from both ends of the connection.  The console *)
(* answers a command with one RESPONSE packet, or with several when the    *)
(* reply does not fit into one packet; every packet of a reply carries the *)
(* request id of its command.  The client reads from the connection's      *)
(* receive buffer, in which unread packets stay.                           *)
(***************************************************************************)
\* the packets the console sends in reply to the k-th command of the session
PeerReply(k, command, parts) ==
    [ i \in 1..parts |-> [ reply_to |-> k, command |-> command, part |-> i ] ]

\* lines 129-131 of send_command on an open connection: _send_packet, then
\* one _receive_packet, whose request id and type are dropped (`_, _,
\* response`); the console's reply arrives behind what the buffer holds
exchange_one(box, k, command, parts) ==
    LET arrived == box \o PeerReply(k, command, parts)
    IN  [ response |-> Head(arrived), box |-> Tail(arrived) ]

InitSsVars ==
    /\ sconn = "none"
    /\ inbox = << >>
    /\ ncmd = 0
    /\ answers = << >>

othersSs == << rconVars, codecVars, tqVars, metVars, bkVars, lastCall, sgVars,
               netVars, dkVars, dpVars, schVars, rsVars, wgVars, cbVars, sdVars, catVars, rdVars >>

\* connect(): a new connection, authenticated; its receive buffer is empty
\* once the one packet answering AUTH was read
SessConnect ==
    /\ sconn = "none"
    /\ sconn' = "open"
    /\ inbox' = << >>
    /\ ncmd' = 0
    /\ answers' = << >>
    /\ UNCHANGED othersSs

\* send_command on the open connection
SessSendCommand ==
    /\ sconn = "open"
    /\ ncmd < MaxCmds
    /\ \E command \in Commands, outcome \in ExchangeOutcomes,
          parts \in 1..MaxParts :
          IF outcome = "ok"
              THEN LET r == exchange_one(inbox, ncmd + 1, command, parts)
                   IN  /\ inbox' = r.box
                       /\ answers' = Append(answers,
                                        [ sent |-> command, got |-> r.response ])
                       /\ ncmd' = ncmd + 1
                       /\ sconn' = sconn
              \* lines 132-135: the socket is closed, what it held is gone
              ELSE /\ sconn' = "none"
                   /\ inbox' = << >>
                   /\ ncmd' = IF outcome = "sendfail" THEN ncmd ELSE ncmd + 1
                   /\ answers' = answers
    /\ UNCHANGED othersSs

\* disconnect(), or the end of the `with` block
SessDisconnect ==
    /\ sconn = "open"
    /\ sconn' = "none"
    /\ inbox' = << >>
    /\ UNCHANGED << ncmd, answers, othersSs >>

(***************************************************************************)
(* _receive_bytes and _receive_packet reading from a socket.  The bytes of *)
(* the peer arrive in segments; socket.recv(bufsize) returns at most       *)
(* bufsize bytes of the first segment that has not been read, and b'' when *)
(* the peer has closed the connection and nothing is left.                 *)
(***************************************************************************)
\* a recv that returns the whole segment, whatever bufsize
recv_unbounded(chunks, bufsize) ==
    IF chunks = << >> THEN [ chunk |-> << >>, rest |-> << >> ]
    ELSE [ chunk |-> Head(chunks), rest |-> Tail(chunks) ]

\* socket.recv(bufsize)
recv(chunks, bufsize) ==
    IF chunks = << >> THEN [ chunk |-> << >>, rest |-> << >> ]
    ELSE LET c == Head(chunks)
             n == IF bufsize < Len(c) THEN bufsize ELSE Len(c)
         IN  [ chunk |-> SubSeq(c, 1, n),
               rest  |-> IF n = Len(c) THEN Tail(chunks)
                         ELSE << SubSeq(c, n + 1, Len(c)) >> \o Tail(chunks) ]

\* RCONClient._receive_bytes: the loop of lines 107-111, entered with the
\* bytes read so far in data
RECURSIVE receive_bytes_from(_, _, _)
receive_bytes_from(chunks, length, data) ==
    IF Len(data) >= length
        THEN [ raised |-> FALSE, data |-> data, chunks |-> chunks ]
    ELSE LET r == recv(chunks, length - Len(data))
         IN  IF r.chunk = << >>
                 THEN [ raised |-> TRUE, data |-> << >>, chunks |-> r.rest ]
                 ELSE receive_bytes_from(r.rest, length, data \o r.chunk)

NoReceive == [ raised |-> FALSE, size_data |-> << >>, packet_data |-> << >>,
               packet |-> NoPacket, left |-> << >> ]

\* the bytes of a sequence of segments
RECURSIVE Flatten(_)
Flatten(chunks) ==
    IF chunks = << >> THEN << >> ELSE Head(chunks) \o Flatten(Tail(chunks))

\* RCONClient._receive_packet reading from the socket; left: the bytes that
\* stay in the socket
receive_packet_from(chunks) ==
    LET a == receive_bytes_from(chunks, 4, << >>)
    IN  IF a.raised
            THEN [ NoReceive EXCEPT !.raised = TRUE, !.left = Flatten(a.chunks) ]
        ELSE LET b == receive_bytes_from(a.chunks, unpack_i(a.data), << >>)
             IN  IF b.raised
                     THEN [ NoReceive EXCEPT !.raised = TRUE,
                                             !.left = Flatten(b.chunks) ]
                     ELSE [ raised |-> FALSE, size_data |-> a.data,
                            packet_data |-> b.data,
                            packet |-> receive_packet(a.data \o b.data),
                            left |-> Flatten(b.chunks) ]

\* the segments of s when it is split behind the positions in cuts
RECURSIVE Split(_, _, _)
Split(s, cuts, from) ==
    IF from > Len(s) THEN << >>
    ELSE LET later == { c \in cuts : c >= from /\ c < Len(s) }
             end   == IF later = { } THEN Len(s)
                      ELSE CHOOSE c \in later : \A d \in later : c <= d
         IN  << SubSeq(s, from, end) >> \o Split(s, cuts, end + 1)

\* the packet that is read, with payloads of 0, 1 and 3 bytes, and the
\* packet the peer sends behind it
FirstPackets ==
    { PacketBytes(1, PACKET_RESPONSE, << >>),
      PacketBytes(2, PACKET_RESPONSE, << 65 >>),
      PacketBytes(-1, PACKET_COMMAND, << 8364 >>) }

SecondPacket == PacketBytes(3, PACKET_RESPONSE, << 65 >>)

\* where the bytes may be split, and after how many bytes the peer may close
CutPlaces == { 1, 3, 4, 5, 13, 14, 15, 17, 20 }
ClosePlaces == { 0, 2, 4, 9, 13, 14, 15, 17, 32 }

InitRdVars ==
    /\ rdPc = "ready"
    /\ rdChunks = << >>
    /\ rdOut = NoReceive

othersRd == << rconVars, codecVars, tqVars, metVars, bkVars, lastCall, sgVars,
               netVars, dkVars, dpVars, schVars, rsVars, wgVars, cbVars, sdVars, catVars, ssVars >>

\* the peer sends a packet and the beginning of the next and may close
RdPeerSends ==
    /\ rdPc \in { "ready", "done" }
    /\ \E first \in FirstPackets, close \in ClosePlaces,
          cuts \in { c \in SUBSET CutPlaces : Cardinality(c) <= MaxCuts } :
          LET all == first \o SecondPacket
              sent == SubSeq(all, 1, IF close < Len(all) THEN close ELSE Len(all))
          IN  rdChunks' = Split(sent, cuts, 1)
    /\ rdPc' = "sent"
    /\ rdOut' = NoReceive
    /\ UNCHANGED othersRd

\* _receive_packet is called once
RdReceivePacket ==
    /\ rdPc = "sent"
    /\ rdOut' = receive_packet_from(rdChunks)
    /\ rdPc' = "done"
    /\ UNCHANGED << rdChunks, othersRd >>

(***************************************************************************)
(* get_task_queue: the module global _task_queue and the threads that call *)
(* the accessor.  The function takes no lock; a thread can be preempted    *)
(* between any two of its steps:                                           *)
(*   "idle"       not inside get_task_queue                                *)
(*   "test"       about to evaluate `_task_queue is None`                  *)
(*   "construct"  about to evaluate TaskQueue(num_workers=4)               *)
(*   "assign"     about to store the new pool in _task_queue               *)
(*   "return"     about to evaluate `return _task_queue`                   *)
(* Pools are numbered in the order of their construction.                  *)
(***************************************************************************)
Callers == 1..NumCallers

InitSgVars ==
    /\ g_task_queue = 0
    /\ pools = 0
    /\ gpc = [ c \in Callers |-> "idle" ]
    /\ glocal = [ c \in Callers |-> 0 ]
    /\ gret = [ c \in Callers |-> 0 ]
    /\ gcalls = [ c \in Callers |-> 0 ]

othersSg == << rconVars, codecVars, tqVars, metVars, bkVars, lastCall, schVars, rsVars, wgVars, cbVars, sdVars, catVars, ssVars, rdVars, netVars, dkVars,
              dpVars >>

\* a thread calls get_task_queue()
GtqCall ==
    \E c \in Callers :
        /\ gpc[c] = "idle"
        /\ gcalls[c] < MaxCalls
        /\ gcalls' = [ gcalls EXCEPT ![c] = @ + 1 ]
        /\ gpc' = [ gpc EXCEPT ![c] = "test" ]
        /\ gret' = [ gret EXCEPT ![c] = 0 ]
        /\ UNCHANGED << g_task_queue, pools, glocal, othersSg >>

\* `if _task_queue is None:`
GtqTest ==
    \E c \in Callers :
        /\ gpc[c] = "test"
        /\ gpc' = [ gpc EXCEPT ![c] = IF g_task_queue = 0 THEN "construct" ELSE "return" ]
        /\ UNCHANGED << g_task_queue, pools, glocal, gret, gcalls, othersSg >>

\* TaskQueue(num_workers=4): a new pool and its worker threads
GtqConstruct ==
    \E c \in Callers :
        /\ gpc[c] = "construct"
        /\ pools' = pools + 1
        /\ glocal' = [ glocal EXCEPT ![c] = pools + 1 ]
        /\ gpc' = [ gpc EXCEPT ![c] = "assign" ]
        /\ UNCHANGED << g_task_queue, gret, gcalls, othersSg >>

\* `_task_queue = <the new pool>`
GtqAssign ==
    \E c \in Callers :
        /\ gpc[c] = "assign"
        /\ g_task_queue' = glocal[c]
        /\ glocal' = [ glocal EXCEPT ![c] = 0 ]
        /\ gpc' = [ gpc EXCEPT ![c] = "return" ]
        /\ UNCHANGED << pools, gret, gcalls, othersSg >>

\* `return _task_queue`
GtqReturn ==
    \E c \in Callers :
        /\ gpc[c] = "return"
        /\ gret' = [ gret EXCEPT ![c] = g_task_queue ]
        /\ gpc' = [ gpc EXCEPT ![c] = "idle" ]
        /\ UNCHANGED << g_task_queue, pools, glocal, gcalls, othersSg >>

(***************************************************************************)
(* DockerManager.ensure_network, called by threads that deploy servers.    *)
(* The runtime keys networks by id: the name is an alias, and              *)
(* networks.create of a name that exists either adds a second network of   *)
(* that name or is refused with an APIError, as the daemon decides.        *)
(*   "idle"    not inside ensure_network                                   *)
(*   "get"     about to call client.networks.get(network_name)             *)
(*   "create"  NotFound was caught; about to call client.networks.create   *)
(***************************************************************************)
InitNetVars ==
    /\ netCount = 0
    /\ npc = [ w \in Workers |-> "idle" ]
    /\ ncalls = [ w \in Workers |-> 0 ]
    /\ nreturned = 0
    /\ dupCreate = FALSE

othersNet == << rconVars, codecVars, tqVars, metVars, bkVars, lastCall, schVars, rsVars, wgVars, cbVars, sdVars, catVars, ssVars, rdVars, sgVars, dkVars,
               dpVars >>

\* a thread calls ensure_network()
NetCall ==
    \E w \in Workers :
        /\ npc[w] = "idle"
        /\ ncalls[w] < MaxEnsure
        /\ ncalls' = [ ncalls EXCEPT ![w] = @ + 1 ]
        /\ npc' = [ npc EXCEPT ![w] = "get" ]
        /\ UNCHANGED << netCount, nreturned, dupCreate, othersNet >>

\* client.networks.get(self.network_name) returns a network: the call returns
NetFound ==
    \E w \in Workers :
        /\ npc[w] = "get"
        /\ netCount > 0
        /\ npc' = [ npc EXCEPT ![w] = "idle" ]
        /\ nreturned' = nreturned + 1
        /\ UNCHANGED << netCount, ncalls, dupCreate, othersNet >>

\* client.networks.get raises docker.errors.NotFound, which is caught
NetNotFound ==
    \E w \in Workers :
        /\ npc[w] = "get"
        /\ netCount = 0
        /\ npc' = [ npc EXCEPT ![w] = "create" ]
        /\ UNCHANGED << netCount, ncalls, nreturned, dupCreate, othersNet >>

\* client.networks.get or client.networks.create raises an APIError, which
\* ensure_network does not catch
NetRaise ==
    \E w \in Workers :
        /\ npc[w] \in { "get", "create" }
        /\ npc' = [ npc EXCEPT ![w] = "idle" ]
        /\ UNCHANGED << netCount, ncalls, nreturned, dupCreate, othersNet >>

\* client.networks.create(self.network_name, driver="bridge") succeeds
NetCreate ==
    \E w \in Workers :
        /\ npc[w] = "create"
        /\ netCount' = netCount + 1
        /\ dupCreate' = (dupCreate \/ netCount > 0)
        /\ npc' = [ npc EXCEPT ![w] = "idle" ]
        /\ nreturned' = nreturned + 1
        /\ UNCHANGED << ncalls, othersNet >>

(***************************************************************************)
(* DockerManager.  The runtime holds containers by handle; a handle is     *)
(* never given twice.  A container carries its name, the server id of its  *)
(* label, its status and the networks it is attached to.  Besides the      *)
(* manager, the runtime's owner changes containers (network connect and    *)
(* disconnect, a process that exits, docker rm).                           *)
(* The runtime's behaviour is an input `api` of each operation:            *)
(*   "ok"         every runtime call succeeds                              *)
(*   "get_error"  client.containers.get raises an APIError that is not     *)
(*                NotFound (list: client.containers.list raises)           *)
(*   "op_error"   the first call on the container raises                   *)
(*   "op2_error"  the second call on the container raises                  *)
(***************************************************************************)
NetworkName == "minecraft-network"      \* MC_SERVER_NETWORK (config.py:148)
OtherNetwork == "bridge"
NetNames == { NetworkName, OtherNetwork }

Handles == 1..MaxHandles

\* server ids are uuid strings: the first 8 characters and the rest
InstanceIds == { [ head |-> "0a1b2c3d", tail |-> "-1" ],
                 [ head |-> "4e5f6a7b", tail |-> "-1" ] }

NoId == [ head |-> "", tail |-> "" ]

\* f"mc-server-{server_id[:8]}"
container_name(server_id) == [ prefix |-> "mc-server-", id8 |-> server_id.head ]

NoContainer ==
    [ exists |-> FALSE, status |-> "none", nets |-> { }, name |-> container_name(NoId),
      server_id |-> NoId ]

\* the address the runtime gave container h on network n
Address(h, n) ==
    IF n = NetworkName THEN << "172.18.0.2", "172.18.0.3", "172.18.0.4" >>[h]
                       ELSE << "172.17.0.2", "172.17.0.3", "172.17.0.4" >>[h]

\* container.attrs['NetworkSettings']['Networks'] after reload(): the
\* attached networks and the container's IPAddress on each (empty while the
\* container is not running)
Networks(C, h) ==
    [ n \in C[h].nets |-> IF C[h].status = "running" THEN Address(h, n) ELSE "" ]

ApiOutcomes == { "ok", "get_error", "op_error", "op2_error" }

\* results of the manager's operations
Raised      == [ raised |-> TRUE,  kind |-> "raise", val |-> "",      items |-> { } ]
RNone       == [ raised |-> FALSE, kind |-> "none",  val |-> "None",  items |-> { } ]
RTrue       == [ raised |-> FALSE, kind |-> "bool",  val |-> "True",  items |-> { } ]
RFalse      == [ raised |-> FALSE, kind |-> "bool",  val |-> "False", items |-> { } ]
RText(v)    == [ raised |-> FALSE, kind |-> "text",  val |-> v,       items |-> { } ]
RList(hs)   == [ raised |-> FALSE, kind |-> "list",  val |-> "",      items |-> hs ]
RHandle(h)  == [ raised |-> FALSE, kind |-> "container", val |-> "",  items |-> { h } ]

\* DockerManager.get_container: the container, None on NotFound; any other
\* error of the runtime is not caught
get_container(C, h, api) ==
    IF api = "get_error" THEN Raised
    ELSE IF C[h].exists THEN RHandle(h)
    ELSE RNone

\* a get_container_ip that returns the address on whatever network the
\* container is attached to
get_container_ip_any_network(C, h, api) ==
    LET g == get_container(C, h, api)
    IN  IF g.raised \/ g.kind = "none" \/ api = "op_error" THEN RNone
        ELSE IF C[h].nets # { }
                 THEN RText(Networks(C, h)[CHOOSE n \in C[h].nets :
                                  n # NetworkName \/ C[h].nets = { NetworkName }])
                 ELSE RNone

\* DockerManager.get_container_ip
get_container_ip(C, h, api) ==
    LET g == get_container(C, h, api)
    IN  IF g.raised \/ g.kind = "none" \/ api = "op_error" THEN RNone
        ELSE IF NetworkName \in DOMAIN Networks(C, h)
                 THEN RText(Networks(C, h)[NetworkName])
                 ELSE RNone

\* start_server, stop_server, restart_server: the container method sets the
\* status given
control(C, h, api, status) ==
    LET g == get_container(C, h, api)
    IN  IF g.raised \/ g.kind = "none" \/ api = "op_error"
            THEN [ C |-> C, res |-> RFalse ]
            ELSE [ C |-> [ C EXCEPT ![h].status = status ], res |-> RTrue ]

\* DockerManager.start_server
start_server(C, h, api) == control(C, h, api, "running")

\* DockerManager.stop_server
stop_server(C, h, api) == control(C, h, api, "exited")

\* DockerManager.restart_server
restart_server(C, h, api) == control(C, h, api, "running")

\* DockerManager.delete_server: stop if running, then remove
delete_server(C, h, api) ==
    LET g == get_container(C, h, api)
        isRunning == C[h].status = "running"
        stopped == [ C EXCEPT ![h].status = "exited" ]
        removed == [ C EXCEPT ![h] = NoContainer ]
    IN  IF g.raised \/ g.kind = "none" THEN [ C |-> C, res |-> RFalse ]
        ELSE IF api = "op_error" THEN [ C |-> C, res |-> RFalse ]
        ELSE IF api = "op2_error" /\ isRunning THEN [ C |-> stopped, res |-> RFalse ]
        ELSE [ C |-> removed, res |-> RTrue ]

\* DockerManager.get_container_status: no try block
get_container_status(C, h, api) ==
    LET g == get_container(C, h, api)
    IN  IF g.raised THEN Raised
        ELSE IF g.kind = "none" THEN RNone
        ELSE RText(C[h].status)

\* DockerManager.get_container_logs
get_container_logs(C, h, api) ==
    LET g == get_container(C, h, api)
    IN  IF g.raised \/ g.kind = "none" \/ api = "op_error" THEN RNone
        ELSE RText("logs")

\* DockerManager.get_stats
get_stats(C, h, api) ==
    LET g == get_container(C, h, api)
    IN  IF g.raised \/ g.kind = "none" \/ api = "op_error" THEN RNone
        ELSE RText("stats")

\* DockerManager.list_all_servers: all containers carrying the label
list_all_servers(C, api) ==
    IF api = "get_error" THEN RList({ })
    ELSE RList({ h \in Handles : C[h].exists /\ C[h].server_id # NoId })

\* DockerManager.ensure_network called by one thread: n networks of the
\* managed name exist
ensure_network(n, api) ==
    IF api = "get_error" THEN [ n |-> n, res |-> Raised ]
    ELSE IF n > 0 THEN [ n |-> n, res |-> RNone ]
    ELSE IF api = "op_error" THEN [ n |-> n, res |-> Raised ]
    ELSE [ n |-> n + 1, res |-> RNone ]

\* outcomes of client.containers.run, which creates the container and then
\* starts it:
\*   "net_error"     ensure_network raises
\*   "create_error"  the runtime refuses to create the container
\*   "start_error"   the container is created and its start fails
CreateOutcomes == { "ok", "net_error", "create_error", "start_error" }

\* a create_server that lets the runtime choose the container's name
create_server_unnamed(C, n, k, server_id, api) ==
    LET e == ensure_network(n, IF api = "net_error" THEN "get_error" ELSE "ok")
        h == k + 1
        new(status) == [ exists |-> TRUE, status |-> status, nets |-> { NetworkName },
                         name |-> [ prefix |-> "random", id8 |-> "" ],
                         server_id |-> server_id ]
    IN  IF e.res.raised THEN [ C |-> C, n |-> e.n, k |-> k, res |-> Raised ]
        ELSE IF api = "create_error"
            THEN [ C |-> C, n |-> e.n, k |-> k, res |-> Raised ]
        ELSE IF api = "start_error"
            THEN [ C |-> [ C EXCEPT ![h] = new("created") ], n |-> e.n, k |-> h,
                   res |-> Raised ]
        ELSE [ C |-> [ C EXCEPT ![h] = new("running") ], n |-> e.n, k |-> h,
               res |-> RHandle(h) ]

\* a create_server that logs the runtime's error and returns None
create_server_swallowing(C, n, k, server_id, api) ==
    LET e == ensure_network(n, IF api = "net_error" THEN "get_error" ELSE "ok")
        name == container_name(server_id)
        h == k + 1
        new(status) == [ exists |-> TRUE, status |-> status, nets |-> { NetworkName },
                         name |-> name, server_id |-> server_id ]
    IN  IF e.res.raised THEN [ C |-> C, n |-> e.n, k |-> k, res |-> Raised ]
        ELSE IF api = "create_error" \/ \E g \in Handles : C[g].exists /\ C[g].name = name
            THEN [ C |-> C, n |-> e.n, k |-> k, res |-> RNone ]
        ELSE IF api = "start_error"
            THEN [ C |-> [ C EXCEPT ![h] = new("created") ], n |-> e.n, k |-> h,
                   res |-> RNone ]
        ELSE [ C |-> [ C EXCEPT ![h] = new("running") ], n |-> e.n, k |-> h,
               res |-> RHandle(h) ]

\* DockerManager.create_server; k containers were created before.  The
\* runtime refuses a name that a container already carries.
create_server(C, n, k, server_id, api) ==
    LET e == ensure_network(n, IF api = "net_error" THEN "get_error" ELSE "ok")
        name == container_name(server_id)
        h == k + 1
        new(status) == [ exists |-> TRUE, status |-> status, nets |-> { NetworkName },
                         name |-> name, server_id |-> server_id ]
    IN  IF e.res.raised THEN [ C |-> C, n |-> e.n, k |-> k, res |-> Raised ]
        ELSE IF api = "create_error" \/ \E g \in Handles : C[g].exists /\ C[g].name = name
            THEN [ C |-> C, n |-> e.n, k |-> k, res |-> Raised ]
        ELSE IF api = "start_error"
            THEN [ C |-> [ C EXCEPT ![h] = new("created") ], n |-> e.n, k |-> h,
                   res |-> Raised ]
        ELSE [ C |-> [ C EXCEPT ![h] = new("running") ], n |-> e.n, k |-> h,
               res |-> RHandle(h) ]

InitDkVars ==
    /\ containers = [ h \in Handles |-> NoContainer ]
    /\ created = 0
    /\ dkLast = [ op |-> "none", handle |-> 0, api |-> "ok", existed |-> FALSE,
                  res |-> RNone ]

othersDk == << rconVars, codecVars, tqVars, metVars, bkVars, lastCall, schVars, rsVars, wgVars, cbVars, sdVars, catVars, ssVars, rdVars, sgVars,
               npc, ncalls, nreturned, dupCreate, dpVars >>

\* the call op(h) of the last step, made with runtime behaviour api, and
\* its result
DkCall(op, h, api, res) ==
    [ op |-> op, handle |-> h, api |-> api,
      existed |-> (h # 0 /\ containers[h].exists), res |-> res ]

\* an operation that leaves the runtime as it is
DkRead(op, h, api, res) ==
    /\ dkLast' = DkCall(op, h, api, res)
    /\ UNCHANGED << containers, created, netCount, othersDk >>

\* an operation on a container that returns r.res and leaves the
\* containers r.C
DkControl(op, h, api, r) ==
    /\ dkLast' = DkCall(op, h, api, r.res)
    /\ containers' = r.C
    /\ UNCHANGED << created, netCount, othersDk >>

DkEnsureNetwork ==
    \E api \in { "ok", "get_error", "op_error" } :
        LET r == ensure_network(netCount, api)
        IN  /\ netCount' = r.n
            /\ dkLast' = DkCall("ensure_network", 0, api, r.res)
            /\ UNCHANGED << containers, created, othersDk >>

DkCreateServer ==
    /\ \E server_id \in InstanceIds, api \in CreateOutcomes :
          LET r == create_server(containers, netCount, created, server_id, api)
          IN  /\ r.k <= MaxHandles
              /\ containers' = r.C
              /\ netCount' = r.n
              /\ created' = r.k
              /\ dkLast' = DkCall("create_server", 0, api, r.res)
    /\ UNCHANGED othersDk

DkGetContainer ==
    \E h \in Handles, api \in { "ok", "get_error" } :
        DkRead("get_container", h, api, get_container(containers, h, api))

DkGetContainerIp ==
    \E h \in Handles, api \in { "ok", "get_error", "op_error" } :
        DkRead("get_container_ip", h, api, get_container_ip(containers, h, api))

DkStart ==
    \E h \in Handles, api \in { "ok", "get_error", "op_error" } :
        DkControl("start_server", h, api, start_server(containers, h, api))

DkStop ==
    \E h \in Handles, api \in { "ok", "get_error", "op_error" } :
        DkControl("stop_server", h, api, stop_server(containers, h, api))

DkRestart ==
    \E h \in Handles, api \in { "ok", "get_error", "op_error" } :
        DkControl("restart_server", h, api, restart_server(containers, h, api))

DkDelete ==
    \E h \in Handles, api \in ApiOutcomes :
        DkControl("delete_server", h, api, delete_server(containers, h, api))

DkStatus ==
    \E h \in Handles, api \in { "ok", "get_error" } :
        DkRead("get_container_status", h, api, get_container_status(containers, h, api))

DkLogs ==
    \E h \in Handles, api \in { "ok", "get_error", "op_error" } :
        DkRead("get_container_logs", h, api, get_container_logs(containers, h, api))

DkStats ==
    \E h \in Handles, api \in { "ok", "get_error", "op_error" } :
        DkRead("get_stats", h, api, get_stats(containers, h, api))

DkList ==
    \E api \in { "ok", "get_error" } :
        DkRead("list_all_servers", 0, api, list_all_servers(containers, api))

\* the runtime's owner connects a container to a network or disconnects it
EnvNetwork ==
    \E h \in Handles, n \in NetNames :
        /\ containers[h].exists
        /\ containers' = [ containers EXCEPT ![h].nets =
                              IF n \in @ THEN @ \ { n } ELSE @ \cup { n } ]
        /\ dkLast' = DkCall("none", 0, "ok", RNone)
        /\ UNCHANGED << created, netCount, othersDk >>

\* the server process of a running container exits
EnvExit ==
    \E h \in Handles :
        /\ containers[h].exists /\ containers[h].status = "running"
        /\ containers' = [ containers EXCEPT ![h].status = "exited" ]
        /\ dkLast' = DkCall("none", 0, "ok", RNone)
        /\ UNCHANGED << created, netCount, othersDk >>

(***************************************************************************)
(* One server instance: its row in the servers table, the request handlers *)
(* of api/servers.py and the deploy tasks they submit.                     *)
(* deploy_server_async is decorated with @async_task, so the function the  *)
(* handlers submit is the decorator's wrapper: a worker that runs it       *)
(* submits the body ("body") and is done.                                  *)
(* A worker running the body is at one of                                  *)
(*   "starting"  about to commit status = 'starting'          (lines 31-32)*)
(*   "create"    about to call DockerManager.create_server    (lines 35-46)*)
(*   "record"    about to commit container_id and 'running'   (lines 49-51)*)
(*   "fail"      in the except clause                         (lines 55-58)*)
(* A commit of a row that was deleted in the meantime raises.              *)
(* A request handler loads the Server object and acts on what it loaded.   *)
(***************************************************************************)
Instance == [ head |-> "0a1b2c3d", tail |-> "-1" ]

NoServer == [ exists |-> FALSE, status |-> "none", container_id |-> 0 ]

NoEnd == [ outcome |-> "none", rowExists |-> FALSE, status |-> "none", wrote |-> 0,
           runtimeFailed |-> FALSE, raised |-> FALSE, handle |-> 0, requeued |-> FALSE ]

InitDpVars ==
    /\ server = NoServer
    /\ dq = << >>
    /\ dwpc = [ w \in Workers |-> "idle" ]
    /\ dwh = [ w \in Workers |-> RNone ]
    /\ apc = "new"
    /\ aseen = NoServer
    /\ nstarts = 0
    /\ deployEnd = NoEnd
    /\ nsubmit = 0
    /\ nbody = 0

othersDp == << rconVars, codecVars, tqVars, metVars, bkVars, lastCall, schVars, rsVars, wgVars, cbVars, sdVars, catVars, ssVars, rdVars, sgVars,
               npc, ncalls, nreturned, dupCreate, dkLast >>

\* the containers of the runtime that carry the instance's label
InstanceContainers ==
    { h \in Handles : containers[h].exists /\ containers[h].server_id = Instance }

\* api/servers.py create_server: the row is added with status 'stopped' and
\* the deploy task is submitted
ApiCreate ==
    /\ apc = "new"
    /\ server' = [ exists |-> TRUE, status |-> "stopped", container_id |-> 0 ]
    /\ dq' = Append(dq, "wrapper")
    /\ apc' = "idle"
    /\ deployEnd' = NoEnd
    /\ UNCHANGED << dwpc, dwh, aseen, nstarts, containers, created, netCount, othersDp >>
    /\ nsubmit' = nsubmit + 1
    /\ UNCHANGED nbody

\* a handler loads the Server object: start_server lines 189-197,
\* stop_server lines 224-235, delete_server lines 158-163
ApiLoad ==
    /\ apc = "idle"
    /\ server.exists
    /\ \E request \in { "start", "stop", "delete" } :
          /\ request = "start" => (server.status # "running" /\ nstarts < MaxStarts)
          /\ request = "stop" => (server.status # "stopped" /\ server.container_id # 0)
          /\ apc' = request
          /\ nstarts' = IF request = "start" THEN nstarts + 1 ELSE nstarts
    /\ aseen' = server
    /\ deployEnd' = NoEnd
    /\ UNCHANGED << server, dq, dwpc, dwh, containers, created, netCount, nsubmit, nbody, othersDp >>

\* the commit of a handler or task that set the status (and the container
\* id, when h is not 0) of the row it loaded
Commit(status, h) ==
    IF server.exists
        THEN [ server EXCEPT !.status = status,
                             !.container_id = IF h # 0 THEN h ELSE @ ]
        ELSE server

\* api/servers.py start_server, lines 199-209
ApiStart ==
    /\ apc = "start"
    /\ IF aseen.container_id # 0
          THEN /\ \E api \in { "ok", "op_error" } :
                     containers' = start_server(containers, aseen.container_id, api).C
               /\ server' = Commit("running", 0)
               /\ dq' = dq
          ELSE /\ dq' = Append(dq, "wrapper")
               /\ server' = Commit("starting", 0)
               /\ containers' = containers
    /\ apc' = "idle"
    /\ aseen' = NoServer
    /\ deployEnd' = NoEnd
    /\ UNCHANGED << dwpc, dwh, nstarts, created, netCount, othersDp >>
    /\ nsubmit' = IF aseen.container_id # 0 THEN nsubmit ELSE nsubmit + 1
    /\ UNCHANGED nbody

\* api/servers.py stop_server, lines 237-241
ApiStop ==
    /\ apc = "stop"
    /\ \E api \in { "ok", "op_error" } :
          containers' = stop_server(containers, aseen.container_id, api).C
    /\ server' = Commit("stopped", 0)
    /\ apc' = "idle"
    /\ aseen' = NoServer
    /\ deployEnd' = NoEnd
    /\ UNCHANGED << dq, dwpc, dwh, nstarts, created, netCount, nsubmit, nbody, othersDp >>

\* api/servers.py delete_server, lines 169-174: the container of the loaded
\* object is deleted, whatever delete_server returns, and the row is deleted
ApiDelete ==
    /\ apc = "delete"
    /\ IF aseen.container_id # 0
          THEN \E api \in { "ok", "op_error", "op2_error" } :
                  containers' = delete_server(containers, aseen.container_id, api).C
          ELSE containers' = containers
    /\ server' = NoServer
    /\ apc' = "idle"
    /\ aseen' = NoServer
    /\ deployEnd' = NoEnd
    /\ UNCHANGED << dq, dwpc, dwh, nstarts, created, netCount, nsubmit, nbody, othersDp >>

\* a wrapper that submits itself instead of the function it wraps
RunWrapper_resubmitting ==
    \E w \in Workers :
        /\ dwpc[w] = "idle"
        /\ dq # << >> /\ Head(dq) = "wrapper"
        /\ dq' = Append(Tail(dq), "wrapper")
        /\ deployEnd' = NoEnd
        /\ UNCHANGED << server, dwpc, dwh, apc, aseen, nstarts, containers, created,
                        netCount, nsubmit, nbody, othersDp >>

\* a worker takes the wrapper of @async_task from the queue and runs it:
\* task_queue.submit(func, server_id)
RunWrapper ==
    \E w \in Workers :
        /\ dwpc[w] = "idle"
        /\ dq # << >> /\ Head(dq) = "wrapper"
        /\ dq' = Append(Tail(dq), "body")
        /\ deployEnd' = NoEnd
        /\ UNCHANGED << server, dwpc, dwh, apc, aseen, nstarts, containers, created,
                        netCount, nsubmit, nbody, othersDp >>

\* a worker takes the body from the queue; deploy_server_async lines 24-27
DeployQuery ==
    \E w \in Workers :
        /\ dwpc[w] = "idle"
        /\ dq # << >> /\ Head(dq) = "body"
        /\ dq' = Tail(dq)
        /\ dwpc' = [ dwpc EXCEPT ![w] = IF server.exists THEN "starting" ELSE "idle" ]
        /\ deployEnd' = NoEnd
        /\ UNCHANGED << server, dwh, apc, aseen, nstarts, containers, created,
                        netCount, othersDp >>
    /\ nbody' = nbody + 1
    /\ UNCHANGED nsubmit

\* deploy_server_async lines 31-32
DeployStarting ==
    \E w \in Workers :
        /\ dwpc[w] = "starting"
        /\ server' = Commit("starting", 0)
        /\ dwpc' = [ dwpc EXCEPT ![w] = IF server.exists THEN "create" ELSE "fail" ]
        /\ dwh' = [ dwh EXCEPT ![w] = RNone ]
        /\ deployEnd' = NoEnd
        /\ UNCHANGED << dq, apc, aseen, nstarts, containers, created, netCount,
                        nsubmit, nbody, othersDp >>

\* deploy_server_async lines 35-46; a result without container makes
\* line 49 raise
DeployCreate ==
    \E w \in Workers, api \in CreateOutcomes :
        /\ dwpc[w] = "create"
        /\ LET r == create_server(containers, netCount, created, Instance, api)
           IN  /\ r.k <= MaxHandles
               /\ containers' = r.C
               /\ netCount' = r.n
               /\ created' = r.k
               /\ dwh' = [ dwh EXCEPT ![w] =
                             [ r.res EXCEPT !.val = IF r.C = containers /\ api = "ok"
                                                       THEN "conflict" ELSE api ] ]
               /\ dwpc' = [ dwpc EXCEPT ![w] =
                             IF r.res.kind = "container" THEN "record" ELSE "fail" ]
        /\ deployEnd' = NoEnd
        /\ UNCHANGED << server, dq, apc, aseen, nstarts, nsubmit, nbody, othersDp >>

\* the end of a deploy task, as the claims see it
End(w, outcome, wrote) ==
    [ outcome |-> outcome, rowExists |-> server'.exists, status |-> server'.status,
      wrote |-> wrote, runtimeFailed |-> dwh[w].val # "ok", raised |-> dwh[w].raised,
      handle |-> IF dwh[w].kind = "container" THEN CHOOSE h \in dwh[w].items : TRUE ELSE 0,
      requeued |-> Len(dq') > Len(dq) ]

\* deploy_server_async lines 49-53
DeployRecord ==
    \E w \in Workers :
        /\ dwpc[w] = "record"
        /\ UNCHANGED << dq, apc, aseen, nstarts, containers, created, netCount,
                        nsubmit, nbody, othersDp >>
        /\ LET h == CHOOSE g \in dwh[w].items : TRUE
           IN  /\ server' = Commit("running", h)
               /\ dwpc' = [ dwpc EXCEPT ![w] = IF server.exists THEN "idle" ELSE "fail" ]
               /\ deployEnd' = IF server.exists THEN End(w, "recorded", h) ELSE NoEnd
        /\ dwh' = [ dwh EXCEPT ![w] = IF server.exists THEN RNone ELSE @ ]

\* deploy_server_async lines 55-58
DeployFail ==
    \E w \in Workers :
        /\ dwpc[w] = "fail"
        /\ UNCHANGED << dq, apc, aseen, nstarts, containers, created, netCount,
                        nsubmit, nbody, othersDp >>
        /\ server' = Commit("error", 0)
        /\ dwpc' = [ dwpc EXCEPT ![w] = "idle" ]
        /\ dwh' = [ dwh EXCEPT ![w] = RNone ]
        /\ deployEnd' = End(w, "failed", 0)

(***************************************************************************)
(* A restore request for the instance, handled while the requests and      *)
(* deploy tasks above run.                                                 *)
(***************************************************************************)
InitRsVars ==
    /\ rsPc = "idle"
    /\ rsCleared = "none"

othersRs == << rconVars, codecVars, tqVars, metVars, bkVars, lastCall, sgVars,
               netVars, dkVars, dpVars, schVars, wgVars, cbVars, sdVars, catVars, ssVars, rdVars >>

\* api/backups.py restore_backup lines 132-144: the request is refused when
\* the row says 'running'; otherwise BackupManager.restore_backup is called
ApiRestoreCheck ==
    /\ rsPc = "idle"
    /\ server.exists
    /\ rsPc' = IF server.status = "running" THEN "idle" ELSE "restore"
    /\ UNCHANGED << rsCleared, othersRs >>

\* BackupManager.restore_backup lines 92-100: after the safety snapshot the
\* data directory is removed
ApiRestoreClear ==
    /\ rsPc = "restore"
    /\ rsCleared' = IF \E h \in InstanceContainers : containers[h].status = "running"
                       THEN "live" ELSE "stopped"
    /\ rsPc' = "idle"
    /\ UNCHANGED othersRs

(***************************************************************************)
(* start_monitoring_scheduler, called by create_app in the main thread and *)
(* in every background task, and the scheduler threads it starts.  A       *)
(* scheduler thread ends only when an exception leaves run_scheduled_tasks.*)
(***************************************************************************)
SchedulerThreads == 1..MaxThreads

InitSchVars ==
    /\ schLock = 0
    /\ schPc = [ c \in Callers |-> "idle" ]
    /\ schThread = 0
    /\ schAlive = [ k \in SchedulerThreads |-> FALSE ]
    /\ schTicking = [ k \in SchedulerThreads |-> FALSE ]
    /\ schStarted = 0

othersSch == << rconVars, codecVars, tqVars, metVars, bkVars, lastCall, sgVars,
                netVars, dkVars, dpVars, rsVars, wgVars, cbVars, sdVars, catVars, ssVars, rdVars >>

\* create_app line 186: start_monitoring_scheduler(app) is called and
\* reaches the with statement
SchCall(c) ==
    /\ schPc[c] = "idle"
    /\ schPc' = [ schPc EXCEPT ![c] = "wait" ]
    /\ UNCHANGED << schLock, schThread, schAlive, schTicking, schStarted, othersSch >>

\* a start_monitoring_scheduler that does not take the lock
SchAcquire_unlocked(c) ==
    /\ schPc[c] = "wait"
    /\ schPc' = [ schPc EXCEPT ![c] = "check" ]
    /\ UNCHANGED << schLock, schThread, schAlive, schTicking, schStarted, othersSch >>

\* start_monitoring_scheduler line 67: with _scheduler_lock
SchAcquire(c) ==
    /\ schPc[c] = "wait"
    /\ schLock = 0
    /\ schLock' = c
    /\ schPc' = [ schPc EXCEPT ![c] = "check" ]
    /\ UNCHANGED << schThread, schAlive, schTicking, schStarted, othersSch >>

\* lines 68-69: return, releasing the lock, when the thread is alive
SchCheck(c) ==
    /\ schPc[c] = "check"
    /\ IF schThread # 0 /\ schAlive[schThread]
          THEN /\ schPc' = [ schPc EXCEPT ![c] = "idle" ]
               /\ schLock' = IF schLock = c THEN 0 ELSE schLock
          ELSE /\ schPc' = [ schPc EXCEPT ![c] = "create" ]
               /\ UNCHANGED schLock
    /\ UNCHANGED << schThread, schAlive, schTicking, schStarted, othersSch >>

\* lines 70-76: a new thread is assigned to the global and started; the
\* lock is released
SchStart(c) ==
    /\ schPc[c] = "create"
    /\ schStarted < MaxThreads
    /\ schStarted' = schStarted + 1
    /\ schThread' = schStarted + 1
    /\ schAlive' = [ schAlive EXCEPT ![schStarted + 1] = TRUE ]
    /\ schLock' = IF schLock = c THEN 0 ELSE schLock
    /\ schPc' = [ schPc EXCEPT ![c] = "idle" ]
    /\ UNCHANGED << schTicking, othersSch >>

\* run_scheduled_tasks: schedule.run_pending() calls the collection job
SchTickBegin(k) ==
    /\ schAlive[k] /\ ~schTicking[k]
    /\ schTicking' = [ schTicking EXCEPT ![k] = TRUE ]
    /\ UNCHANGED << schLock, schPc, schThread, schAlive, schStarted, othersSch >>

\* the job returns, or an exception that it does not catch ends the thread
SchTickEnd(k, raises) ==
    /\ schAlive[k] /\ schTicking[k]
    /\ schTicking' = [ schTicking EXCEPT ![k] = FALSE ]
    /\ schAlive' = [ schAlive EXCEPT ![k] = ~raises ]
    /\ UNCHANGED << schLock, schPc, schThread, schStarted, othersSch >>

\* initial state of the components of this part of the model
InitLater ==
    InitSgVars /\ InitNetVars /\ InitDkVars /\ InitDpVars /\ InitCatVars
        /\ InitSsVars /\ InitRdVars
        /\ InitSdVars
        /\ InitCbVars
        /\ InitWgVars
        /\ InitRsVars
        /\ InitSchVars

(***************************************************************************)
(* Specifications.                                                         *)
(***************************************************************************)
\* one RCONClient used through connect / send_command / disconnect and
\* through the with-statement
InitRcon == InitRconVars /\ InitCodecVars /\ InitTqVars /\ InitMetVars /\ InitBkVars
    /\ InitLater

NextRcon ==
    \/ RconNew
    \/ RconConnect
    \/ RconDisconnect
    \/ RconEnter
    \/ RconExit
    \/ RconSendCommand

SpecRcon == InitRcon /\ [][NextRcon]_vars

\* the same client after it has sent any number of packets: the counter
\* starts anywhere, here at 0 or shortly before the wrap
StartIds == { 0, IdMax - 2 }

InitRequestId ==
    /\ request_id \in StartIds
    /\ socket = "none" /\ conn = 0 /\ authed = "none" /\ wire = << >>
    /\ ret = None /\ scope = "out" /\ saving = "on" /\ lastCall = NoCall
    /\ InitCodecVars /\ InitTqVars /\ InitMetVars /\ InitBkVars /\ InitLater

SpecRequestId == InitRequestId /\ [][NextRcon]_vars

\* packets encoded by _send_packet and read back by _receive_packet
InitCodec == InitRconVars /\ InitCodecVars /\ InitTqVars /\ InitMetVars /\ InitBkVars
    /\ InitLater

NextCodec == CodecEncode \/ CodecDecode

SpecCodec == InitCodec /\ [][NextCodec]_vars

\* the task queue, its workers, submitting threads and a thread waiting
\* for completion
InitTq == InitRconVars /\ InitCodecVars /\ InitTqVars /\ InitMetVars /\ InitBkVars
    /\ InitLater

NextTq ==
    \/ TqSubmit
    \/ TqWorkerLoop
    \/ TqWorkerGet
    \/ TqWorkerEmpty
    \/ TqWorkerRun
    \/ TqWorkerDone
    \/ shutdown
    \/ wait_completion_call
    \/ wait_completion_return

SpecTq == InitTq /\ [][NextTq]_vars

\* the pool, submitting threads and one thread that shuts the pool down;
\* every worker thread is scheduled again and again and time passes
InitShutdown == InitRconVars /\ InitCodecVars /\ InitTqVars /\ InitMetVars /\ InitBkVars
    /\ InitLater

NextShutdown ==
    \/ TqSubmitNext
    \/ TqWorkerLoop
    \/ TqWorkerGet
    \/ TqWorkerEmpty
    \/ TqWorkerRun
    \/ TqWorkerHang
    \/ TqWorkerDone
    \/ shutdown_call
    \/ shutdown_join

FairShutdown ==
    /\ \A w \in Workers : WF_vars(WorkerStep(w))
    /\ WF_vars(shutdown_join)

SpecShutdown == InitShutdown /\ [][NextShutdown]_vars /\ FairShutdown

\* backup requests for one instance, handled by threads of the server
InitBackupRace == InitRconVars /\ InitCodecVars /\ InitTqVars /\ InitMetVars /\ InitBkVars
    /\ InitLater

NextBackupRace ==
    \/ \E c \in Requests : CbCall(c)
    \/ \E c \in Requests : CbPause(c)
    \/ \E c \in Requests, raises \in BOOLEAN : CbArchiveBegin(c, raises)
    \/ \E c \in Requests, raises \in BOOLEAN : CbArchiveEnd(c, raises)
    \/ \E c \in Requests : CbResume(c)

SpecBackupRace == InitBackupRace /\ [][NextBackupRace]_vars

\* a client thread on an authenticated session, the peer, and time, which
\* passes
InitWedged == InitRconVars /\ InitCodecVars /\ InitTqVars /\ InitMetVars /\ InitBkVars
    /\ InitLater

NextWedged ==
    \/ WgConnect
    \/ WgSend
    \/ WgPeerSends
    \/ WgPeerCloses
    \/ WgSecond
    \/ WgTimeout

SpecWedged == InitWedged /\ [][NextWedged]_vars /\ WF_vars(WgSecond \/ WgTimeout)

\* threads that construct application objects, and the scheduler threads
InitScheduler == InitRconVars /\ InitCodecVars /\ InitTqVars /\ InitMetVars /\ InitBkVars
    /\ InitLater

NextScheduler ==
    \/ \E c \in Callers : SchCall(c)
    \/ \E c \in Callers : SchAcquire(c)
    \/ \E c \in Callers : SchCheck(c)
    \/ \E c \in Callers : SchStart(c)
    \/ \E k \in SchedulerThreads : SchTickBegin(k)
    \/ \E k \in SchedulerThreads, raises \in BOOLEAN : SchTickEnd(k, raises)

SpecScheduler == InitScheduler /\ [][NextScheduler]_vars

\* the metrics collector, the clock and the readers
InitMet == InitRconVars /\ InitCodecVars /\ InitTqVars /\ InitMetVars /\ InitBkVars
    /\ InitLater

NextMet == Tick \/ Collect \/ GetRecent \/ GetLatest

SpecMet == InitMet /\ [][NextMet]_vars

\* the collector with callers that modify what they were handed, within one
\* reading of the clock
NextMetAlias ==
    \/ Collect
    \/ GetRecent
    \/ GetLatest
    \/ CallerModifiesSample
    \/ CallerModifiesList

SpecMetAlias == InitMet /\ [][NextMetAlias]_vars

\* create_backup and restore_backup called one after the other on one
\* instance, for any initial data directory
InitBk ==
    /\ InitRconVars /\ InitCodecVars /\ InitTqVars /\ InitMetVars
    /\ dataDir \in InitialTrees
    /\ InitBkRest
    /\ InitLater

NextBk ==
    \/ TickIdle
    \/ CreateCall
    \/ Pause
    \/ Archive
    \/ Resume
    \/ Recover
    \/ RestoreCall
    \/ RestoreSafety
    \/ RestoreClear
    \/ RestoreExtract
    \/ ApiRecordBackup

SpecBk == InitBk /\ [][NextBk]_vars

\* one call of _receive_packet on what a peer sends
InitReader ==
    /\ InitRconVars /\ InitCodecVars /\ InitTqVars /\ InitMetVars /\ InitBkVars
    /\ InitLater

NextReader == RdPeerSends \/ RdReceivePacket

SpecReader == InitReader /\ [][NextReader]_vars

\* one console session
InitSession ==
    /\ InitRconVars /\ InitCodecVars /\ InitTqVars /\ InitMetVars /\ InitBkVars
    /\ InitLater

NextSession == SessConnect \/ SessSendCommand \/ SessDisconnect

SpecSession == InitSession /\ [][NextSession]_vars

\* the accessor get_task_queue called by several threads
InitSingleton ==
    /\ InitRconVars /\ InitCodecVars /\ InitTqVars /\ InitMetVars /\ InitBkVars
    /\ InitLater

NextSingleton == GtqCall \/ GtqTest \/ GtqConstruct \/ GtqAssign \/ GtqReturn

SpecSingleton == InitSingleton /\ [][NextSingleton]_vars

\* ensure_network called by the threads of the pool
InitNet ==
    /\ InitRconVars /\ InitCodecVars /\ InitTqVars /\ InitMetVars /\ InitBkVars
    /\ InitLater

NextNet == NetCall \/ NetFound \/ NetNotFound \/ NetRaise \/ NetCreate

SpecNet == InitNet /\ [][NextNet]_vars

\* the operations of one DockerManager on a runtime that its owner also
\* changes
InitDocker ==
    /\ InitRconVars /\ InitCodecVars /\ InitTqVars /\ InitMetVars /\ InitBkVars
    /\ InitLater

NextDocker ==
    \/ DkEnsureNetwork
    \/ DkCreateServer
    \/ DkGetContainer
    \/ DkGetContainerIp
    \/ DkStart
    \/ DkStop
    \/ DkRestart
    \/ DkDelete
    \/ DkStatus
    \/ DkLogs
    \/ DkStats
    \/ DkList
    \/ EnvNetwork
    \/ EnvExit

SpecDocker == InitDocker /\ [][NextDocker]_vars

\* one instance: the create request, start, stop and delete requests, and
\* the workers running the tasks the requests submit
InitDeploy ==
    /\ InitRconVars /\ InitCodecVars /\ InitTqVars /\ InitMetVars /\ InitBkVars
    /\ InitLater

NextDeploy ==
    \/ ApiCreate
    \/ ApiLoad
    \/ ApiStart
    \/ ApiStop
    \/ ApiDelete
    \/ RunWrapper
    \/ DeployQuery
    \/ DeployStarting
    \/ DeployCreate
    \/ DeployRecord
    \/ DeployFail

SpecDeploy == InitDeploy /\ [][NextDeploy]_vars

\* the instance, its requests and the deploy tasks, with worker threads
\* that are scheduled again and again
FairDeploy ==
    /\ WF_vars(RunWrapper \/ DeployQuery)
    /\ WF_vars(DeployStarting \/ DeployCreate \/ DeployRecord \/ DeployFail)

SpecDeployFair == InitDeploy /\ [][NextDeploy]_vars /\ FairDeploy

\* the instance with its create request, start requests and deploy tasks
\* only: no stop and no delete request is made
ApiLoadStart == ApiLoad /\ apc' = "start"

NextDeployStart ==
    \/ ApiCreate
    \/ ApiLoadStart
    \/ ApiStart
    \/ RunWrapper
    \/ DeployQuery
    \/ DeployStarting
    \/ DeployCreate
    \/ DeployRecord
    \/ DeployFail

SpecDeployStart == InitDeploy /\ [][NextDeployStart]_vars

\* the instance with its requests and deploy tasks, and restore requests
NextRestoreLive ==
    \/ NextDeploy
    \/ ApiRestoreCheck
    \/ ApiRestoreClear

SpecRestoreLive == InitDeploy /\ [][NextRestoreLive]_vars

(***************************************************************************)
(* Claims.                                                                 *)
(***************************************************************************)

\* C1: fail-closed authentication: no COMMAND packet is ever sent on a
\* connection whose authentication response carried request id -1.
C1_FailClosed ==
    \A i \in 1..Len(wire) :
        wire[i].type = PACKET_COMMAND => wire[i].authed # "rejected"

\* a create_backup call has returned
CreateReturned == bpc = "idle" /\ bkRet \in { "path", None }

C3_PathOnlyWhenAllSucceeded ==
    (bpc = "idle" /\ bkRet = "path") =>
        /\ archives[bkName].state = "complete"
        /\ Len(calls) = 3
        /\ \A i \in 1..3 : calls[i].executed

\* C4: no task body is executed twice, and when wait_completion returns
\* every task submitted so far has been executed exactly once.
C4_ExactlyOnce ==
    /\ \A t \in Tasks : execCount[t] <= 1
    /\ waitPc = "returned" => \A t \in waitSnapshot : execCount[t] = 1

\* wait_completion returned after all tasks ran, two of them at the same time
C4_Witness ==
    /\ waitPc = "returned"
    /\ waitSnapshot = Tasks
    /\ \A t \in Tasks : execCount[t] = 1
    /\ overlap

\* position of a task in the submission order
SubmitIndex(t) == CHOOSE i \in 1..Len(submitted) : submitted[i] = t

\* C5: a task whose body raised is neither pending nor executed again, no
\* task runs twice, and a worker leaves its loop only after shutdown, so
\* the workers keep dequeuing the other tasks.
C5_FailureIsolated ==
    /\ \A t \in Tasks : execCount[t] <= 1
    /\ \A t \in raised :
          /\ t \notin Range(task_queue)
          /\ \A w \in Workers : wpc[w] = "run" => wtask[w] # t
    /\ \A w \in Workers : wpc[w] = "exited" => ~running
    /\ \A w \in Workers : wpc[w] \in { "run", "done" } <=> wtask[w] # 0

\* a task raised, and tasks submitted before and after it were executed
\* while every worker is still in its loop
C5_Witness ==
    /\ running
    /\ \A w \in Workers : wpc[w] # "exited"
    /\ \E t1 \in raised, t0, t2 \in Range(submitted) \ raised :
          /\ SubmitIndex(t0) < SubmitIndex(t1)
          /\ SubmitIndex(t1) < SubmitIndex(t2)
          /\ execCount[t0] = 1 /\ execCount[t2] = 1

\* C6: the request ids of the packets of one connection advance by one
\* modulo 2^31, lie in 0 .. 2^31 - 1 and do not repeat.
C6_RequestIds ==
    /\ request_id >= 0 /\ request_id <= IdMax
    /\ \A i \in 1..Len(wire) : wire[i].id >= 0 /\ wire[i].id <= IdMax
    /\ \A i \in 1..(Len(wire) - 1) :
          wire[i].conn = wire[i + 1].conn =>
              wire[i + 1].id = IF wire[i].id = IdMax THEN 0 ELSE wire[i].id + 1
    /\ \A i, j \in 1..Len(wire) :
          (i < j /\ wire[i].conn = wire[j].conn) => wire[i].id # wire[j].id

\* one connection carried the ids 2^31 - 1, 0 and 1 in a row
C6_Witness ==
    \E i \in 1..(Len(wire) - 2) :
        /\ wire[i].conn = wire[i + 2].conn
        /\ wire[i].id = IdMax /\ wire[i + 1].id = 0 /\ wire[i + 2].id = 1

\* C7: the size field of an encoded packet is the number of bytes after it,
\* 8 + payload bytes + 2 zero bytes, and the reader returns the request id,
\* type and payload that were encoded.
C7_PacketRoundTrip ==
    /\ codecPc \in { "encoded", "decoded" } =>
          /\ unpack_i(SubSeq(stream, 1, 4)) = Len(stream) - 4
          /\ Len(stream) - 4 = 8 + Len(utf8_encode(encIn.payload)) + 2
          /\ SubSeq(stream, Len(stream) - 1, Len(stream)) = << 0, 0 >>
    /\ codecPc = "decoded" =>
          /\ decOut.request_id = encIn.id
          /\ decOut.response_type = encIn.type
          /\ decOut.payload = encIn.payload
          /\ decOut.consumed = Len(stream)

\* a packet with a negative id and multi-byte characters was read back
C7_Witness ==
    /\ codecPc = "decoded"
    /\ encIn.id = -1
    /\ encIn.payload = << 8364, 233 >>
    /\ decOut.payload = << 8364, 233 >>

\* the last n elements of a sequence
LastN(seq, n) == SubSeq(seq, Len(seq) - n + 1, Len(seq))

\* more than maxlen samples were stored for s and the last maxlen + 1 of
\* them are within the retention period
OverflowInWindow(s) ==
    /\ Len(history[s]) > maxlen
    /\ \A i \in (Len(history[s]) - maxlen)..Len(history[s]) :
          history[s][i].timestamp >= now - retention_seconds

\* C8: a buffer never holds more than maxlen samples; once more than maxlen
\* samples were collected for an instance within the retention period,
\* get_recent_metrics(instance, maxlen) returns exactly the maxlen most
\* recently collected samples, oldest first.
C8_BufferBounded ==
    /\ \A s \in ServerIds : Len(metrics[s]) <= maxlen
    /\ (readOut.op = "recent" /\ readOut.limit = maxlen
            /\ OverflowInWindow(readOut.server)) =>
          /\ Len(readOut.result) = maxlen
          /\ readOut.result = LastN(history[readOut.server], maxlen)

\* such a read happened
C8_Witness ==
    /\ readOut.op = "recent" /\ readOut.limit = maxlen
    /\ OverflowInWindow(readOut.server)
    /\ Len(readOut.result) = maxlen

\* C9: no sample returned by a read is older than the retention period at
\* the time of the read.
C9_ReadsAreFresh ==
    readOut.op # "none" =>
        \A i \in 1..Len(readOut.result) :
            readOut.at - readOut.result[i].timestamp <= retention_seconds

\* C10: when create_backup returned an archive and restore_backup of that
\* archive, called next, returned True, the data directory holds exactly the
\* files and directories it held when create_backup was called.
C10_BackupRoundTrip ==
    (bpc = "idle" /\ bkRet = "True" /\ roundTrip) => dataDir = origDir

\* a round trip of a directory holding a file and a subdirectory with a file
C10_Witness ==
    /\ bpc = "idle" /\ bkRet = "True" /\ roundTrip
    /\ \E f \in dataDir.files : Len(f.path) = 2
    /\ \E f \in dataDir.files : Len(f.path) = 1

\* C12: whenever a `with RCONClient(...)` block is left, normally, by an
\* exception or by a return, the client holds no socket afterwards; and a
\* disconnect() on a client that holds no socket changes nothing.
C12_ScopedExitCloses ==
    /\ [](lastCall.op = "exit" => socket = "none")
    /\ [][ (socket = "none" /\ lastCall'.op = "disconnect") =>
               UNCHANGED << socket, request_id, conn, authed, wire, saving >> ]_vars

\* a block entered with an accepted connection was left by an exception
\* while the socket was open
C12_Witness ==
    /\ lastCall.op = "exit" /\ lastCall.path = "exception"
    /\ lastCall.before = "open" /\ authed = "accepted"
    /\ socket = "none"

\* C13: whenever connect returned False or send_command returned None, the
\* client holds no open socket.
C13_FailedCallsDisconnect ==
    ( \/ lastCall.op = "connect" /\ ret = "False"
      \/ lastCall.op = "send_command" /\ ret = None ) => socket = "none"

\* number of COMMAND packets the peer received
CommandCount(w) == Cardinality({ i \in 1..Len(w) : w[i].type = PACKET_COMMAND })

\* the connection attempt of the last connect() or __enter__ failed
AttemptFailed ==
    /\ lastCall.op \in { "connect", "enter" }
    /\ socket = "none" \/ authed = "rejected"

\* C14 as claimed: a send_command that follows a failed connection attempt
\* returns None without opening another connection.
C14_NoConnectAfterFailure ==
    [][ (AttemptFailed /\ lastCall'.op = "send_command") =>
            (conn' = conn /\ ret' = None) ]_vars

\* C14 as amended: one send_command call opens at most one connection, and
\* only when the client holds no socket; it sends at most one AUTH and one
\* COMMAND packet, and after an exchange that failed the command is not sent
\* again and the call returns None.
C14_AtMostOneAttempt ==
    [][ lastCall'.op = "send_command" =>
            /\ conn' - conn <= 1
            /\ socket = "open" => conn' = conn
            /\ Len(wire') - Len(wire) <= 2
            /\ CommandCount(wire') - CommandCount(wire) <= 1 ]_vars

\* a send_command that found no socket, connected, delivered the command
\* and failed to read the response
C14_Witness ==
    /\ lastCall.op = "send_command" /\ lastCall.before = "none"
    /\ ret = None /\ socket = "none"
    /\ Len(wire) >= 2
    /\ wire[Len(wire)].type = PACKET_COMMAND
    /\ wire[Len(wire) - 1].type = PACKET_AUTH
    /\ wire[Len(wire) - 1].conn = wire[Len(wire)].conn

\* C16: exactly one TaskQueue is ever constructed, and every get_task_queue
\* call returns that one pool, also when first calls run concurrently.
C16_OnePool ==
    /\ pools <= 1
    /\ \A c \in Callers : gret[c] # 0 => gret[c] = 1

\* workers holding a task they took from the queue and have not yet
\* reported with task_done()
InFlight == { w \in Workers : wpc[w] \in { "run", "done" } }

\* C15: the counter wait_completion waits on always equals the number of
\* queued tasks plus the number of tasks in flight (so it goes down once per
\* task, whether the task returned or raised), and wait_completion returns
\* only when the queue is empty and no worker holds a task.
C15_CounterAndReturn ==
    /\ [](unfinished_tasks = Len(task_queue) + Cardinality(InFlight))
    /\ [][ (waitPc = "waiting" /\ waitPc' = "returned") =>
               (task_queue = << >> /\ InFlight = { }) ]_vars

\* wait_completion returned after a task that raised and a task that
\* returned were both reported
C15_Witness ==
    /\ waitPc = "returned"
    /\ unfinished_tasks = 0 /\ task_queue = << >> /\ InFlight = { }
    /\ \E t \in waitSnapshot : t \in raised /\ execCount[t] = 1
    /\ \E t \in waitSnapshot : t \notin raised /\ execCount[t] = 1

\* C19: at most one network with the managed name exists, exactly one once
\* an ensure_network call has returned, and no call creates a network while
\* one exists.
C19_ExactlyOneNetwork ==
    /\ netCount <= 1
    /\ nreturned > 0 => netCount = 1
    /\ ~dupCreate

\* C11: get_container_ip never raises; it returns None for a handle without
\* container and for a container that is not attached to the managed
\* network; an address it returns is the container's address on the managed
\* network.
C11_ContainerIp ==
    dkLast.op = "get_container_ip" =>
        LET h == dkLast.handle
        IN  /\ ~dkLast.res.raised
            /\ ~containers[h].exists => dkLast.res = RNone
            /\ NetworkName \notin containers[h].nets => dkLast.res = RNone
            /\ dkLast.res # RNone =>
                  /\ containers[h].exists /\ NetworkName \in containers[h].nets
                  /\ dkLast.res = RText(Networks(containers, h)[NetworkName])

\* the address of a running container attached to the managed network and
\* to another network
C11_Witness ==
    /\ dkLast.op = "get_container_ip"
    /\ containers[dkLast.handle].nets = NetNames
    /\ containers[dkLast.handle].status = "running"
    /\ dkLast.res = RText(Address(dkLast.handle, NetworkName))

\* the read and control operations of the manager
ReadControlOps ==
    { "start_server", "stop_server", "restart_server", "delete_server", "get_stats",
      "get_container_logs", "get_container_ip", "list_all_servers" }

\* C20: start, stop, restart, delete, get_stats, get_container_logs,
\* get_container_ip and list_all_servers never raise, and return False, None
\* or an empty list when the container does not exist or the runtime raises;
\* create_server is the only operation of the manager that raises.
C20_OnlyCreatePropagates ==
    /\ dkLast.op \in ReadControlOps =>
          /\ ~dkLast.res.raised
          /\ (dkLast.api # "ok" \/ (dkLast.handle # 0 /\ ~dkLast.existed)) =>
                 dkLast.res \in { RFalse, RNone, RList({ }) }
    /\ dkLast.res.raised => dkLast.op = "create_server"

C18_DeployEnds ==
    (deployEnd.outcome # "none" /\ deployEnd.rowExists) =>
        /\ deployEnd.status \in { "running", "error" }
        /\ deployEnd.outcome = "recorded" <=> ~deployEnd.runtimeFailed
        /\ deployEnd.outcome = "recorded" =>
              /\ deployEnd.status = "running"
              /\ deployEnd.handle # 0 /\ deployEnd.wrote = deployEnd.handle
              /\ server.container_id = deployEnd.handle
        /\ deployEnd.runtimeFailed =>
              /\ deployEnd.raised
              /\ deployEnd.status = "error"
              /\ deployEnd.wrote = 0
              /\ ~deployEnd.requeued

\* a deploy task ended with 'error' after the runtime created the container
\* and failed to start it: the container exists and no handle is recorded
C18_Witness ==
    /\ deployEnd.outcome = "failed" /\ deployEnd.rowExists
    /\ deployEnd.runtimeFailed /\ deployEnd.raised
    /\ server.status = "error" /\ server.container_id = 0
    /\ \E h \in InstanceContainers : containers[h].status = "created"


Samples(d) == [ i \in 1..Len(d) |-> d[i].metrics ]

Min(a, b) == IF a <= b THEN a ELSE b

\* C22: for every instance and every limit N >= 0, get_recent_metrics returns
\* at most N samples, the last min(N, stored count) samples of the buffer,
\* oldest first; get_latest_metrics returns the last stored sample, or None
\* when the instance has none.
C22_RecentAndLatest ==
    /\ readOut.op = "recent" =>
          /\ Len(readOut.result) <= readOut.limit
          /\ readOut.result =
                LastN(Samples(metrics[readOut.server]),
                      Min(readOut.limit, Len(metrics[readOut.server])))
    /\ readOut.op = "latest" =>
          readOut.result =
              IF metrics[readOut.server] = << >> THEN << >>
              ELSE << metrics[readOut.server]
                          [Len(metrics[readOut.server])].metrics >>


\* C30: eviction is from the oldest end: every buffer is a contiguous suffix
\* of the samples collected for its instance, in collection order, and
\* collecting for one instance never changes the buffer of another.
C30_EvictOldestFirst ==
    /\ [](\A s \in ServerIds :
            /\ Len(metrics[s]) <= Len(history[s])
            /\ Samples(metrics[s]) = LastN(history[s], Len(metrics[s])))
    /\ [][ \A s \in ServerIds :
              (collectCall'.op = "collect" /\ collectCall'.server # s) =>
                  metrics'[s] = metrics[s] ]_vars

\* samples of an instance were evicted, some by age, while the other instance
\* holds a sample
C30_Witness ==
    \E s \in ServerIds, t \in ServerIds :
        /\ s # t
        /\ metrics[t] # << >>
        /\ Len(metrics[s]) > 0
        /\ Len(history[s]) > Len(metrics[s])
        /\ Len(history[s]) <= maxlen
        /\ collectCall.op = "collect" /\ collectCall.server = s


\* C23: readers receive copies: whatever a caller does to a value returned
\* by get_recent_metrics, get_latest_metrics or collect_server_metrics, a
\* later read returns the samples as they were collected.
C23_ReadersGetCopies ==
    readOut.op # "none" =>
        \A i \in 1..Len(readOut.result) :
            \E k \in 1..Len(history[readOut.server]) :
                readOut.result[i] = history[readOut.server][k]


\* restore_backup is past its safety backup
Restoring == bpc \in { "clear", "extract" }

\* C24: restore_backup clears the data directory only after a safety backup
\* of its current contents has been completely written; when the safety
\* backup fails, restore_backup returns False and the data directory is
\* unchanged.
C24_SafetyBeforeClear ==
    /\ [](bpc = "clear" =>
              archives[SafetyName(now)] = Complete(tar_add(dataDir)))
    /\ [][ bpc = "safety" =>
              /\ dataDir' = dataDir
              /\ bpc' = "idle" => bkRet' = "False"
              /\ bpc' \in { "idle", "clear" }
              /\ bpc' = "clear" =>
                    archives'[SafetyName(now)].state = "complete" ]_vars
    /\ [][ (dataDir' # dataDir /\ bpc \notin { "extract" }) => bpc = "clear" ]_vars

\* a directory holding files was cleared, its safety backup holds them
C24_Witness ==
    /\ bpc = "extract"
    /\ dataDir = EmptyTree
    /\ archives[SafetyName(now)].state = "complete"
    /\ \E m \in archives[SafetyName(now)].members :
          m.type = "file" /\ Len(m.name) = 3

\* C25: when restore_backup fails after its safety backup was written (the
\* directory could not be cleared, the archive is missing, unreadable or
\* truncated) it returns False, the safety backup is still there as written
\* and nothing is put back: the directory holds what the failing step left.
C25_FailedRestoreKeepsSafety ==
    /\ [][ (Restoring /\ bpc' = "idle" /\ bkRet' # "True") =>
              /\ bkRet' = "False"
              /\ archives' = archives
              /\ archives'[SafetyName(now)].state = "complete" ]_vars
    /\ [][ (bpc = "clear" /\ bpc' = "idle") =>
              /\ dataDir'.files \subseteq dataDir.files
              /\ dataDir'.dirs = dataDir.dirs ]_vars
    /\ [][ (bpc = "extract" /\ bkRet' = "False") =>
              \E done \in SUBSET archives[bkName].members :
                  dataDir' = extractall(dataDir, done) ]_vars

\* the archive to restore was missing: False came back, the directory stays
\* empty and the safety backup holds the files
C25_Witness ==
    /\ bpc = "idle" /\ bkRet = "False"
    /\ bkName # SafetyName(now)
    /\ archives[bkName].state = "absent"
    /\ dataDir = EmptyTree
    /\ archives[SafetyName(now)].state = "complete"
    /\ \E m \in archives[SafetyName(now)].members : m.type = "file"


\* C26: after a create_backup that failed while writing the archive, the
\* partly written archive is not referenced as a backup: no Backup row
\* points to it and list_backups does not return it.
C26_PartialNeverListed ==
    (bpc = "idle" /\ bkRet = None /\ archiveRaised
        /\ archives[bkName].state = "partial") =>
            /\ bkName \notin catalog
            /\ bkName \notin list_backups(archives)


\* C27: once a delete request for the instance has completed and every
\* queued task has finished, no container of the instance exists, also when
\* the request arrived while a deploy task was queued or running and when
\* the runtime refused the stop or remove call.
C27_DeleteDestroysContainer ==
    (/\ apc = "idle" /\ ~server.exists
     /\ dq = << >>
     /\ \A w \in Workers : dwpc[w] = "idle") =>
          InstanceContainers = { }


\* C28: commands of one console session are not pipelined: every
\* send_command sends one COMMAND packet and reads one response packet, so
\* the k-th response returned is the reply to the k-th command sent, and no
\* command is sent while the reply to an earlier one is unread.
C28_NoPipelining ==
    /\ \A k \in 1..Len(answers) :
          /\ answers[k].got.reply_to = k
          /\ answers[k].got.command = answers[k].sent
    /\ inbox = << >>


\* C29: _receive_packet reads the 4-byte size header and then exactly that
\* many further bytes: however the peer's bytes are split into segments, it
\* returns exactly the bytes of the packet and leaves the bytes of the next
\* packet in the socket; when the peer closes before the bytes have arrived,
\* it raises instead of returning a short result.
C29_ExactRead ==
    rdPc = "done" =>
        LET flat == Flatten(rdChunks)
            size == unpack_i(SubSeq(flat, 1, 4))
            complete == Len(flat) >= 4 /\ Len(flat) >= 4 + size
        IN  /\ complete =>
                  /\ ~rdOut.raised
                  /\ rdOut.size_data = SubSeq(flat, 1, 4)
                  /\ Len(rdOut.packet_data) = size
                  /\ rdOut.packet_data = SubSeq(flat, 5, 4 + size)
                  /\ rdOut.left = SubSeq(flat, 5 + size, Len(flat))
            /\ ~complete => rdOut.raised
            /\ rdOut.raised => rdOut.packet_data = << >>

\* a packet was read whose header came in a segment of 3 bytes and whose
\* last bytes came in one segment with bytes of the next packet
C29_Witness ==
    /\ rdPc = "done" /\ ~rdOut.raised
    /\ Len(rdChunks) = 3
    /\ Len(rdChunks[1]) = 3
    /\ Len(rdChunks[1]) + Len(rdChunks[2]) > 4 + Len(rdOut.packet_data)
    /\ rdOut.left # << >>
    /\ rdOut.packet.payload = << 8364 >>

\* C31: once running is False every worker eventually has left its loop
\* or is inside a body that never returns, and shutdown returns after
\* having waited at most JoinTimeout seconds for each worker.
C31_ShutdownEnds ==
    /\ [](sdElapsed <= JoinTimeout /\ sdTimeouts <= NumWorkers)
    /\ \A w \in Workers : (~running) ~> (wpc[w] \in { "exited", "hung" })
    /\ (sdPc = "join") ~> (sdPc = "returned")

\* shutdown has returned after a full wait for a worker that is inside a
\* body that never returns, while another worker has left its loop
C31_Witness ==
    /\ sdPc = "returned"
    /\ sdTimeouts = 1
    /\ \E w, v \in Workers : wpc[w] = "hung" /\ wpc[v] = "exited"

\* C32: a task waiting in the queue is eventually taken by a worker, which
\* then calls its body, unless the pool is shut down or a worker is inside
\* a body that never returns; tasks that raise do not prevent this.
C32_PendingTaskStarts ==
    \A t \in Tasks :
        (t \in Range(task_queue)) ~>
            \/ t \notin Range(task_queue)
            \/ ~running
            \/ \E w \in Workers : wpc[w] = "hung"

\* every task before the last raised, and the last task was taken and
\* executed while the pool is running and no worker is stuck
C32_Witness ==
    /\ running
    /\ \A w \in Workers : wpc[w] \in { "loop", "get" }
    /\ Len(submitted) = MaxTasks
    /\ raised = Tasks \ { MaxTasks }
    /\ execCount[MaxTasks] = 1

\* C37: no worker takes a task from the queue, to call its body, once
\* running is False.
C37_NoStartAfterShutdown ==
    [][ \A w \in Workers : (wpc[w] = "get" /\ wpc'[w] = "run") => running ]_vars

\* C33: every submit of deploy_server_async by a handler leads to one call
\* of its body: a submission is pending in the queue (as the wrapper, or as
\* the body the wrapper submitted) or its body was called, the k-th
\* submission is followed by the k-th call, and the body is called in a
\* step of a worker that takes it from the queue, not in a step of a handler.
C33_BodyOncePerRequest ==
    /\ [](nbody + Len(dq) = nsubmit)
    /\ \A k \in 1..(MaxStarts + 1) : (nsubmit >= k) ~> (nbody >= k)
    /\ [][ nbody' # nbody =>
             /\ nbody' = nbody + 1
             /\ dq # << >> /\ Head(dq) = "body" /\ dq' = Tail(dq)
             /\ apc' = apc /\ nsubmit' = nsubmit ]_vars

\* the create request and a start request each submitted the task, and
\* both bodies were called
C33_Witness ==
    /\ nsubmit = 2
    /\ nbody = 2
    /\ dq = << >>

\* no request is being handled and no deploy task is queued or running
DeployQuiescent ==
    /\ apc = "idle"
    /\ dq = << >>
    /\ \A w \in Workers : dwpc[w] = "idle"

\* C38: with create and start requests only, once every deploy task has
\* ended the status is 'running' exactly when a container handle is
\* recorded, and the status is never 'error' while the recorded handle is
\* that of an existing container of the instance.
C38_StatusMatchesHandle ==
    /\ (DeployQuiescent /\ server.exists) =>
           (server.status = "running" <=> server.container_id # 0)
    /\ ~ /\ server.exists
         /\ server.status = "error"
         /\ server.container_id \in InstanceContainers

\* C34: nothing keeps two create_backup calls for the instance apart.
\* While a call writes its archive, saving is on only if the console did
\* not execute that call's save-off or has executed the save-on of another
\* call since; the witness is an interleaving in which that happens.
C34_SavingOnlyResumedByOther ==
    \A c \in Requests :
        (cbPc[c] = "archiving" /\ cbSaving = "on") =>
            (~cbPaused[c] \/ cbResumed[c])

\* a call paused saving and is writing its archive, another call that
\* overlapped it has sent save-on and returned, and saving is on
C34_Witness ==
    \E c, d \in Requests :
        /\ c # d
        /\ cbPc[c] = "archiving" /\ cbPaused[c] /\ cbResumed[c]
        /\ cbPc[d] = "idle"
        /\ cbSaving = "on"

\* C35 as claimed: a send_command that is reading leaves the read only when
\* the peer sent the rest of the reply or closed the connection.
C35_BlocksUntilPeerActs ==
    [][ (wgPc = "reading" /\ wgPc' # "reading") =>
            (wgGot' > wgGot \/ wgRaised' = "ConnectionError") ]_vars

\* C35, amended: the socket keeps the timeout connect gave it, so a recv
\* of send_command waits at most ConnectTimeout seconds without data; every
\* send_command returns, and one that timed out has closed the socket and
\* returns None.
C35_ReadTimesOut ==
    /\ [](wgPc = "reading" =>
              /\ wgSock = "open"
              /\ wgTimeout = ConnectTimeout
              /\ wgQuiet <= ConnectTimeout)
    /\ [](wgRaised = "timeout" => (wgRet = None /\ wgSock = "none"))
    /\ (wgPc = "reading") ~> (wgPc = "idle")

\* the peer sent nothing and did not close, and send_command has returned
\* None after the timeout
C35_Witness ==
    /\ wgPc = "idle"
    /\ wgRaised = "timeout"
    /\ wgGot = 0
    /\ wgQuiet = ConnectTimeout
    /\ wgRet = None

\* C36: no step of create_backup or restore_backup changes an archive file
\* that existed before the step.
C36_NoOverwrite ==
    [][ \A n \in ArchiveNames :
            archives[n].state # "absent" => archives'[n] = archives[n] ]_vars

\* C39: restore_backup never removes the data directory while a container
\* of the instance is running.
C39_NoClearWhileRunning == rsCleared # "live"

\* C40: at most one scheduler thread is alive, so at most one thread is
\* inside the collection job; the global names the thread that is alive.
C40_OneScheduler ==
    /\ Cardinality({ k \in SchedulerThreads : schAlive[k] }) <= 1
    /\ Cardinality({ k \in SchedulerThreads : schTicking[k] }) <= 1
    /\ \A k \in SchedulerThreads : schAlive[k] => schThread = k

\* the first scheduler thread has ended, a later call has started the
\* second, which is collecting, while another thread waits for the lock
\* and a third holds it
C40_Witness ==
    /\ schStarted = 2
    /\ ~schAlive[1] /\ schAlive[2] /\ schTicking[2]
    /\ \E c, d \in Callers : c # d /\ schPc[c] = "check" /\ schLock = c /\ schPc[d] = "wait"

====
